---- MODULE Spec2Model ----
(***************************************************************************)
(* A model of the DX7 FM synthesiser's MIDI input system: the byte parser  *)
(* with running status, the message dispatcher, the 16-slot voice pool     *)
(* (allocation, stealing, sustain, all-notes-off), the per-operator        *)
(* envelope generator and the audio block generator.                       *)
(*                                                                         *)
(* Numbers.  The C code computes envelope levels in doubles.  Here a level *)
(* is an integer number of LevelOne-ths (LevelOne = 99 * 10^7, so that     *)
(* every k/99 is exact); controller values keep the denominator the code   *)
(* divides by (127 or 8192) and store the numerator.                       *)
(***************************************************************************)
EXTENDS Integers, Sequences, FiniteSets, TLC

\* ---------------------------------------------------------------- constants

MAX_VOICES == 16
MAX_OPERATORS == 6
ENVELOPE_STAGES == 4

ENV_ATTACK == 0
ENV_DECAY1 == 1
ENV_DECAY2 == 2
ENV_RELEASE == 3

MIDI_NOTE_OFF == 128
MIDI_NOTE_ON == 144
MIDI_CONTROL_CHANGE == 176
MIDI_PROGRAM_CHANGE == 192
MIDI_CHANNEL_PRESSURE == 208
MIDI_PITCH_BEND == 224
MIDI_SYSTEM_EXCLUSIVE == 240
MIDI_END_OF_EXCLUSIVE == 247
MIDI_REALTIME_FIRST == 248

MIDI_CC_MODWHEEL == 1
MIDI_CC_BREATH == 2
MIDI_CC_FOOT == 4
MIDI_CC_VOLUME == 7
MIDI_CC_PAN == 10
MIDI_CC_EXPRESSION == 11
MIDI_CC_SUSTAIN_PEDAL == 64
MIDI_CC_PORTAMENTO == 65
MIDI_CC_ALL_SOUND_OFF == 120
MIDI_CC_ALL_CONTROLLERS_OFF == 121
MIDI_CC_ALL_NOTES_OFF == 123

\* sizeof(parser->sysex_buffer)
SYSEX_BUFFER_SIZE == 512

\* int g_sample_rate = 48000;
g_sample_rate == 48000

\* ---------------------------------------------------------------- arithmetic

Abs(x) == IF x < 0 THEN -x ELSE x
Min(a, b) == IF a < b THEN a ELSE b
Max(a, b) == IF a > b THEN a ELSE b

\* The level 1.0.
LevelOne == 99 * 10000000
\* (double)k / 99.0
Level99(k) == k * (LevelOne \div 99)
\* A double keeps growing where this model saturates.
LevelCap == LevelOne + (LevelOne \div 10)

\* A digit base B that 32-bit integers allow for a divisor c up to the longest
\* stage time, 300000 * 990: (2 * B - 1) * c stays below 2^31.
DigitBase(c) ==
    IF c <= 8000 THEN 131072
    ELSE IF c <= 1000000 THEN 1024
    ELSE IF c <= 60000000 THEN 16
    ELSE 4

\* <<q, r>> with a * b = q * c + r, for 0 <= a < c, taking b one digit at a
\* time; q saturates at LevelOne.
RECURSIVE MulDivDigits(_, _, _)
MulDivDigits(a, b, c) ==
    IF b = 0 THEN <<0, 0>>
    ELSE LET base == DigitBase(c)
             h == MulDivDigits(a, b \div base, c)
             t == base * h[2] + (b % base) * a
         IN  <<Min(base * Min(h[1], LevelOne \div base) + (t \div c), LevelOne),
               t % c>>

\* floor(a * b / c) for a, b >= 0 and c > 0, saturating at LevelOne: the
\* quotient of a product that does not fit the model checker's integers.
MulDiv(a, b, c) ==
    IF a = 0 \/ b = 0 THEN 0
    ELSE LET qa == a \div c
             h == MulDivDigits(a % c, b, c)
         IN  IF qa > LevelOne \div b THEN LevelOne
             ELSE Min(qa * b + h[1], LevelOne)

\* A frequency ratio is counted in units of 1/9900, in which the ratios of a
\* patch file (hundredths) and the ratios the decoder makes (coarse +
\* fine/99) are both whole numbers.
RatioOne == 9900
\* The ratio h/100.
Hundredths(h) == h * 99

\* A C array from the tuple of its elements (index 0 first).
Arr(t) == [i \in 0..(Len(t) - 1) |-> t[i + 1]]

\* One value per operator: operators[MAX_OPERATORS] as the tuple of operators
\* 1..6 (index 0 of the C array is operator 1).
PerOperator(F(_)) == <<F(1), F(2), F(3), F(4), F(5), F(6)>>

\* ---------------------------------------------------------------- envelope.c

\* rate_table[100], in units of 1/10000 s.
rate_table == Arr(<<
    300000, 250000, 200000, 180000, 160000, 140000, 120000, 100000, 80000, 60000,
    55000, 50000, 45000, 40000, 35000, 30000, 28000, 26000, 24000, 22000,
    20000, 18000, 16000, 14000, 12000, 10000, 9500, 9000, 8500, 8000,
    7500, 7000, 6500, 6000, 5500, 5000, 4700, 4400, 4100, 3800,
    3500, 3200, 2900, 2600, 2300, 2000, 1900, 1800, 1700, 1600,
    1500, 1400, 1300, 1200, 1100, 1000, 950, 900, 850, 800,
    750, 700, 650, 600, 550, 500, 470, 440, 410, 380,
    350, 320, 290, 260, 230, 200, 180, 160, 140, 120,
    100, 90, 80, 70, 60, 50, 45, 40, 35, 30,
    25, 20, 18, 16, 14, 12, 10, 8, 6, 4 >>)

\* The stage time in units of 1/(990 * 10000) s: the table entry (1/10000 s)
\* times the scale |level_diff|/99, at least 0.1, in 990ths.
dx7_envelope_rate_to_time(rate, level_diff) ==
    IF rate = 0 THEN 300000 * 990
    ELSE IF rate >= 99 THEN 4 * 990
    ELSE rate_table[rate] *
         (IF 10 * Abs(level_diff) < 99 THEN 99 ELSE 10 * Abs(level_diff))

\* 588 * (1.0 + rate_scale * (op->key_rate_scaling / 7.0)), the divisor every
\* stage time is divided by; rate_scale is kept in 84ths (12 * 7).
KeyRateDivisor(op, rate_scale) == 588 + rate_scale * op.key_rate_scaling

\* LevelOne / 99 per second of the time unit and per sample: 10^7 * 9900000 /
\* (588 * g_sample_rate).
RateUnit == MulDiv(99000000, 1000000, 588 * g_sample_rate)

\* |diff| / (99.0 * time * g_sample_rate) for time = t / (divisor / 588) and
\* divisor > 0, in level units per sample (at most 1.0 per sample).
EnvRate(diff, t, divisor) == MulDiv(Abs(diff) * divisor, RateUnit, t)

init_envelope(op, rate_scale) ==
    LET attack_time == dx7_envelope_rate_to_time(op.env_rates[ENV_ATTACK],
                                                 op.env_levels[ENV_ATTACK])
        divisor == KeyRateDivisor(op, rate_scale)
    IN  [ stage  |-> ENV_ATTACK,
          level  |-> 0,
          rate   |-> IF divisor > 0
                       THEN EnvRate(op.env_levels[ENV_ATTACK], attack_time, divisor)
                     ELSE IF divisor = 0 THEN 0   \* time is +inf: x / inf = 0
                     ELSE LevelOne,               \* 99.0: instant attack
          target |-> Level99(op.env_levels[ENV_ATTACK]) ]

\* The rate on entering Decay 1 or Decay 2 from the stage before it.
DecayRate(op, rate_scale, stage) ==
    LET level_diff == op.env_levels[stage - 1] - op.env_levels[stage]
        decay_time == dx7_envelope_rate_to_time(op.env_rates[stage], level_diff)
        divisor == KeyRateDivisor(op, rate_scale)
    IN  IF divisor > 0 /\ level_diff # 0
          THEN (IF level_diff > 0 THEN -1 ELSE 1)
               * EnvRate(level_diff, decay_time, divisor)
        ELSE 0

\* update_envelope with a Decay 2 that moves on to Release once the level is
\* at the sustain target.
UpdateReleasingAtSustain(env, op, rate_scale) ==
    CASE env.stage = ENV_ATTACK ->
           IF env.level >= env.target \/ op.env_rates[ENV_ATTACK] >= 99
             THEN [ stage  |-> ENV_DECAY1,
                    level  |-> env.target,
                    rate   |-> DecayRate(op, rate_scale, ENV_DECAY1),
                    target |-> Level99(op.env_levels[ENV_DECAY1]) ]
           ELSE [env EXCEPT !.level = Min(env.level + env.rate, env.target)]
      [] env.stage = ENV_DECAY1 ->
           IF env.level <= env.target \/ op.env_rates[ENV_DECAY1] >= 99
             THEN [ stage  |-> ENV_DECAY2,
                    level  |-> env.target,
                    rate   |-> DecayRate(op, rate_scale, ENV_DECAY2),
                    target |-> Level99(op.env_levels[ENV_DECAY2]) ]
           ELSE [env EXCEPT !.level = Max(env.level + env.rate, env.target)]
      [] env.stage = ENV_DECAY2 ->
           IF env.level > env.target
             THEN [env EXCEPT !.level = Max(env.level + env.rate, env.target)]
           ELSE [env EXCEPT !.stage = ENV_RELEASE]
      [] OTHER ->
           [env EXCEPT !.level = Min(Max(env.level + env.rate, 0), LevelCap)]

update_envelope(env, op, rate_scale) ==
    CASE env.stage = ENV_ATTACK ->
           IF env.level >= env.target \/ op.env_rates[ENV_ATTACK] >= 99
             THEN [ stage  |-> ENV_DECAY1,
                    level  |-> env.target,
                    rate   |-> DecayRate(op, rate_scale, ENV_DECAY1),
                    target |-> Level99(op.env_levels[ENV_DECAY1]) ]
           ELSE [env EXCEPT !.level = Min(env.level + env.rate, env.target)]
      [] env.stage = ENV_DECAY1 ->
           IF env.level <= env.target \/ op.env_rates[ENV_DECAY1] >= 99
             THEN [ stage  |-> ENV_DECAY2,
                    level  |-> env.target,
                    rate   |-> DecayRate(op, rate_scale, ENV_DECAY2),
                    target |-> Level99(op.env_levels[ENV_DECAY2]) ]
           ELSE [env EXCEPT !.level = Max(env.level + env.rate, env.target)]
      [] env.stage = ENV_DECAY2 ->
           IF env.level > env.target
             THEN [env EXCEPT !.level = Max(env.level + env.rate, env.target)]
           ELSE env
      [] OTHER ->
           [env EXCEPT !.level = Min(Max(env.level + env.rate, 0), LevelCap)]

\* (int)(env->level * 99.0): a level that is exactly 27/99, 54/99 or 59/99
\* multiplies back to just under the integer in double arithmetic.
TruncLevel99(level) ==
    LET k == level \div (LevelOne \div 99)
    IN  IF level = Level99(k) /\ k \in {27, 54, 59} THEN k - 1 ELSE k

trigger_release(env, op, rate_scale) ==
    LET level_diff == TruncLevel99(env.level) - op.env_levels[ENV_RELEASE]
        release_time == dx7_envelope_rate_to_time(op.env_rates[ENV_RELEASE],
                                                  level_diff)
        divisor == KeyRateDivisor(op, rate_scale)
    IN  [ stage  |-> ENV_RELEASE,
          level  |-> env.level,
          rate   |-> IF divisor >= 0 /\ level_diff # 0
                       THEN (IF divisor = 0 THEN 0
                             ELSE (IF level_diff > 0 THEN -1 ELSE 1)
                                  * EnvRate(level_diff, release_time, divisor))
                     ELSE -(LevelOne \div 10),    \* -0.1: default fast release
          target |-> Level99(op.env_levels[ENV_RELEASE]) ]

\* ---------------------------------------------------------------- patches

\* dx7_operator_t: the fields the envelope, the oscillator and the mix read,
\* with frequency ratio 1.00 and no detune.  The patches of the engine model
\* have key_vel_sens 0 and both level scaling depths 0: vel_factor and
\* level_scale are 1.0.
Operator(rates, levels, output_level, key_rate_scaling) ==
    [ env_rates        |-> Arr(rates),
      env_levels       |-> Arr(levels),
      output_level     |-> output_level,
      key_rate_scaling |-> key_rate_scaling,
      freq_ratio       |-> RatioOne,
      detune           |-> 0 ]

\* The operator with another frequency ratio and detune.
Tuned(op, freq_ratio, detune) ==
    [op EXCEPT !.freq_ratio = freq_ratio, !.detune = detune]

\* dx7_patch_t with all six operators alike, algorithm 1, no feedback and the
\* LFO at speed 0.  The patches of the engine model have lfo_pmd 0 and lfo_amd
\* 0: the LFO runs and modulates nothing.
Patch(op) ==
    [ operators |-> PerOperator(LAMBDA i : op),
      algorithm |-> 1,
      feedback  |-> 0,
      lfo_speed |-> 0 ]

\* The patch with another algorithm, feedback and LFO speed.
Voiced(patch, algorithm, feedback, lfo_speed) ==
    [patch EXCEPT !.algorithm = algorithm, !.feedback = feedback,
                  !.lfo_speed = lfo_speed]

\* memset(patch, 0, sizeof(dx7_patch_t))
ZeroPatch ==
    Voiced(Patch(Tuned(Operator(<<0, 0, 0, 0>>, <<0, 0, 0, 0>>, 0, 0), 0, 0)),
           0, 0, 0)
\* Instant stages, full sustain level: sounds until released.
OrganPatch == Patch(Operator(<<99, 99, 99, 99>>, <<99, 99, 99, 0>>, 99, 0))
\* Instant attack, sustain level 0: falls silent while the key is held.
PluckPatch == Patch(Operator(<<99, 99, 99, 99>>, <<99, 50, 0, 0>>, 99, 0))

\* ---------------------------------------------------------------- algorithms.c

\* static algorithm_def_t algorithms[33]: index 0 is unused; an entry lists
\* its carriers (operator numbers, 0 where unused), their number, and
\* modulation_matrix[modulator][carrier], here with operators numbered from 1.
algorithms ==
    LET table == <<
       [ carriers |-> <<0, 0, 0, 0, 0, 0>>, num_carriers |-> 0,
         modulation_matrix |-> <<<<0,0,0,0,0,0>>, <<0,0,0,0,0,0>>, <<0,0,0,0,0,0>>,
           <<0,0,0,0,0,0>>, <<0,0,0,0,0,0>>, <<0,0,0,0,0,0>>>> ],
       [ carriers |-> <<1, 0, 0, 0, 0, 0>>, num_carriers |-> 1,
         modulation_matrix |-> <<<<0,0,0,0,0,0>>, <<0,0,0,0,0,0>>, <<0,1,0,0,0,0>>,
           <<0,0,1,0,0,0>>, <<0,0,0,1,0,0>>, <<0,0,0,0,1,0>>>> ],
       [ carriers |-> <<1, 2, 0, 0, 0, 0>>, num_carriers |-> 2,
         modulation_matrix |-> <<<<0,0,0,0,0,0>>, <<0,0,0,0,0,0>>, <<0,0,1,0,0,0>>,
           <<0,0,0,1,0,0>>, <<0,0,0,0,1,0>>, <<0,0,0,0,0,0>>>> ],
       [ carriers |-> <<1, 3, 0, 0, 0, 0>>, num_carriers |-> 2,
         modulation_matrix |-> <<<<0,0,0,0,0,0>>, <<1,0,0,0,0,0>>, <<0,0,0,0,0,0>>,
           <<0,0,0,0,0,0>>, <<0,0,0,1,0,0>>, <<0,0,0,0,1,0>>>> ],
       [ carriers |-> <<1, 4, 0, 0, 0, 0>>, num_carriers |-> 2,
         modulation_matrix |-> <<<<0,0,0,0,0,0>>, <<1,0,0,0,0,0>>, <<0,1,0,0,0,0>>,
           <<0,0,0,0,0,0>>, <<0,0,0,0,0,0>>, <<0,0,0,0,1,0>>>> ],
       [ carriers |-> <<1, 5, 0, 0, 0, 0>>, num_carriers |-> 2,
         modulation_matrix |-> <<<<0,0,0,0,0,0>>, <<1,0,0,0,0,0>>, <<0,1,0,0,0,0>>,
           <<0,0,1,0,0,0>>, <<0,0,0,0,0,0>>, <<0,0,0,0,0,0>>>> ],
       [ carriers |-> <<1, 2, 5, 0, 0, 0>>, num_carriers |-> 3,
         modulation_matrix |-> <<<<0,0,0,0,0,0>>, <<0,0,0,0,0,0>>, <<0,1,0,0,0,0>>,
           <<0,0,1,0,0,0>>, <<0,0,0,0,0,0>>, <<0,0,0,0,0,0>>>> ],
       [ carriers |-> <<1, 3, 5, 0, 0, 0>>, num_carriers |-> 3,
         modulation_matrix |-> <<<<0,0,0,0,0,0>>, <<1,0,0,0,0,0>>, <<0,0,0,0,0,0>>,
           <<0,0,0,0,0,0>>, <<0,0,0,0,0,0>>, <<0,0,0,0,0,0>>>> ],
       [ carriers |-> <<1, 2, 3, 5, 0, 0>>, num_carriers |-> 4,
         modulation_matrix |-> <<<<0,0,0,0,0,0>>, <<0,0,0,0,0,0>>, <<0,0,0,0,0,0>>,
           <<0,0,0,0,0,0>>, <<0,0,0,0,0,0>>, <<0,0,0,0,0,0>>>> ],
       [ carriers |-> <<1, 4, 5, 0, 0, 0>>, num_carriers |-> 3,
         modulation_matrix |-> <<<<0,0,0,0,0,0>>, <<1,0,0,0,0,0>>, <<0,1,0,0,0,0>>,
           <<0,0,0,0,0,0>>, <<0,0,0,0,0,0>>, <<0,0,0,0,0,0>>>> ],
       [ carriers |-> <<1, 2, 4, 5, 0, 0>>, num_carriers |-> 4,
         modulation_matrix |-> <<<<0,0,0,0,0,0>>, <<0,0,0,0,0,0>>, <<0,1,0,0,0,0>>,
           <<0,0,0,0,0,0>>, <<0,0,0,0,0,0>>, <<0,0,0,0,0,0>>>> ],
       [ carriers |-> <<1, 3, 4, 5, 0, 0>>, num_carriers |-> 4,
         modulation_matrix |-> <<<<0,0,0,0,0,0>>, <<1,0,0,0,0,0>>, <<0,0,0,0,0,0>>,
           <<0,0,0,0,0,0>>, <<0,0,0,0,0,0>>, <<0,0,0,0,0,0>>>> ],
       [ carriers |-> <<1, 2, 3, 4, 5, 0>>, num_carriers |-> 5,
         modulation_matrix |-> <<<<0,0,0,0,0,0>>, <<0,0,0,0,0,0>>, <<0,0,0,0,0,0>>,
           <<0,0,0,0,0,0>>, <<0,0,0,0,0,0>>, <<0,0,0,0,0,0>>>> ],
       [ carriers |-> <<1, 6, 0, 0, 0, 0>>, num_carriers |-> 2,
         modulation_matrix |-> <<<<0,0,0,0,0,0>>, <<1,0,0,0,0,0>>, <<0,1,0,0,0,0>>,
           <<0,0,1,0,0,0>>, <<0,0,0,1,0,0>>, <<0,0,0,0,0,0>>>> ],
       [ carriers |-> <<1, 2, 6, 0, 0, 0>>, num_carriers |-> 3,
         modulation_matrix |-> <<<<0,0,0,0,0,0>>, <<0,0,0,0,0,0>>, <<0,1,0,0,0,0>>,
           <<0,0,1,0,0,0>>, <<0,0,0,1,0,0>>, <<0,0,0,0,0,0>>>> ],
       [ carriers |-> <<1, 3, 6, 0, 0, 0>>, num_carriers |-> 3,
         modulation_matrix |-> <<<<0,0,0,0,0,0>>, <<1,0,0,0,0,0>>, <<0,0,0,0,0,0>>,
           <<0,0,0,0,0,0>>, <<0,0,0,1,0,0>>, <<0,0,0,0,0,0>>>> ],
       [ carriers |-> <<1, 4, 6, 0, 0, 0>>, num_carriers |-> 3,
         modulation_matrix |-> <<<<0,0,0,0,0,0>>, <<1,0,0,0,0,0>>, <<0,1,0,0,0,0>>,
           <<0,0,0,0,0,0>>, <<0,0,0,0,0,0>>, <<0,0,0,0,0,0>>>> ],
       [ carriers |-> <<1, 2, 4, 6, 0, 0>>, num_carriers |-> 4,
         modulation_matrix |-> <<<<0,0,0,0,0,0>>, <<0,0,0,0,0,0>>, <<0,1,0,0,0,0>>,
           <<0,0,0,0,0,0>>, <<0,0,0,0,0,0>>, <<0,0,0,0,0,0>>>> ],
       [ carriers |-> <<1, 3, 4, 6, 0, 0>>, num_carriers |-> 4,
         modulation_matrix |-> <<<<0,0,0,0,0,0>>, <<1,0,0,0,0,0>>, <<0,0,0,0,0,0>>,
           <<0,0,0,0,0,0>>, <<0,0,0,0,0,0>>, <<0,0,0,0,0,0>>>> ],
       [ carriers |-> <<1, 5, 6, 0, 0, 0>>, num_carriers |-> 3,
         modulation_matrix |-> <<<<0,0,0,0,0,0>>, <<1,0,0,0,0,0>>, <<0,1,0,0,0,0>>,
           <<0,0,1,0,0,0>>, <<0,0,0,0,0,0>>, <<0,0,0,0,0,0>>>> ],
       [ carriers |-> <<1, 2, 5, 6, 0, 0>>, num_carriers |-> 4,
         modulation_matrix |-> <<<<0,0,0,0,0,0>>, <<0,0,0,0,0,0>>, <<0,1,0,0,0,0>>,
           <<0,0,1,0,0,0>>, <<0,0,0,0,0,0>>, <<0,0,0,0,0,0>>>> ],
       [ carriers |-> <<1, 3, 5, 6, 0, 0>>, num_carriers |-> 4,
         modulation_matrix |-> <<<<0,0,0,0,0,0>>, <<1,0,0,0,0,0>>, <<0,0,0,0,0,0>>,
           <<0,0,0,0,0,0>>, <<0,0,0,0,0,0>>, <<0,0,0,0,0,0>>>> ],
       [ carriers |-> <<1, 4, 5, 6, 0, 0>>, num_carriers |-> 4,
         modulation_matrix |-> <<<<0,0,0,0,0,0>>, <<1,0,0,0,0,0>>, <<0,1,0,0,0,0>>,
           <<0,0,0,0,0,0>>, <<0,0,0,0,0,0>>, <<0,0,0,0,0,0>>>> ],
       [ carriers |-> <<1, 2, 4, 5, 6, 0>>, num_carriers |-> 5,
         modulation_matrix |-> <<<<0,0,0,0,0,0>>, <<0,0,0,0,0,0>>, <<0,1,0,0,0,0>>,
           <<0,0,0,0,0,0>>, <<0,0,0,0,0,0>>, <<0,0,0,0,0,0>>>> ],
       [ carriers |-> <<1, 3, 4, 5, 6, 0>>, num_carriers |-> 5,
         modulation_matrix |-> <<<<0,0,0,0,0,0>>, <<1,0,0,0,0,0>>, <<0,0,0,0,0,0>>,
           <<0,0,0,0,0,0>>, <<0,0,0,0,0,0>>, <<0,0,0,0,0,0>>>> ],
       [ carriers |-> <<1, 2, 3, 4, 5, 6>>, num_carriers |-> 6,
         modulation_matrix |-> <<<<0,0,0,0,0,0>>, <<0,0,0,0,0,0>>, <<0,0,0,0,0,0>>,
           <<0,0,0,0,0,0>>, <<0,0,0,0,0,0>>, <<0,0,0,0,0,0>>>> ],
       [ carriers |-> <<1, 0, 0, 0, 0, 0>>, num_carriers |-> 1,
         modulation_matrix |-> <<<<0,0,0,0,0,0>>, <<1,0,0,0,0,0>>, <<0,1,0,0,0,0>>,
           <<0,0,1,0,0,0>>, <<0,0,0,1,0,0>>, <<0,0,0,1,0,0>>>> ],
       [ carriers |-> <<1, 2, 0, 0, 0, 0>>, num_carriers |-> 2,
         modulation_matrix |-> <<<<0,0,0,0,0,0>>, <<0,0,0,0,0,0>>, <<0,1,0,0,0,0>>,
           <<0,0,1,0,0,0>>, <<0,0,0,1,0,0>>, <<0,0,0,1,0,0>>>> ],
       [ carriers |-> <<1, 3, 0, 0, 0, 0>>, num_carriers |-> 2,
         modulation_matrix |-> <<<<0,0,0,0,0,0>>, <<1,0,0,0,0,0>>, <<0,0,0,0,0,0>>,
           <<0,0,0,1,0,0>>, <<0,0,0,1,0,0>>, <<0,0,0,1,0,0>>>> ],
       [ carriers |-> <<1, 4, 0, 0, 0, 0>>, num_carriers |-> 2,
         modulation_matrix |-> <<<<0,0,0,0,0,0>>, <<1,0,0,0,0,0>>, <<0,1,0,0,0,0>>,
           <<0,0,0,0,0,0>>, <<0,0,0,0,1,0>>, <<0,0,0,0,1,0>>>> ],
       [ carriers |-> <<1, 2, 4, 0, 0, 0>>, num_carriers |-> 3,
         modulation_matrix |-> <<<<0,0,0,0,0,0>>, <<0,0,0,0,0,0>>, <<0,1,0,0,0,0>>,
           <<0,0,0,0,0,0>>, <<0,0,0,1,0,0>>, <<0,0,0,1,0,0>>>> ],
       [ carriers |-> <<1, 3, 4, 0, 0, 0>>, num_carriers |-> 3,
         modulation_matrix |-> <<<<0,0,0,0,0,0>>, <<1,0,0,0,0,0>>, <<0,0,0,0,0,0>>,
           <<0,0,0,0,0,0>>, <<0,0,0,1,0,0>>, <<0,0,0,1,0,0>>>> ],
       [ carriers |-> <<1, 2, 3, 4, 0, 0>>, num_carriers |-> 4,
         modulation_matrix |-> <<<<0,0,0,0,0,0>>, <<0,0,0,0,0,0>>, <<0,0,0,0,0,0>>,
           <<0,0,0,0,0,0>>, <<1,1,1,1,0,0>>, <<1,1,1,1,0,0>>>> ]
       >>
    IN  [algorithm \in 0..32 |-> table[algorithm + 1]]

\* get_algorithm_routing: the entry of the algorithm, or of algorithm 1 when
\* the number is not in 1..32.
get_algorithm_routing(algorithm) ==
    IF algorithm < 1 \/ algorithm > 32 THEN algorithms[1]
    ELSE algorithms[algorithm]

\* The operators process_algorithm sums: carriers[0 .. num_carriers - 1].
Carriers(alg) == {alg.carriers[i] : i \in 1..alg.num_carriers}

\* The <<modulator, carrier>> pairs process_algorithm applies modulation for:
\* those with modulation_matrix[modulator][carrier] > 0.
Edges(alg) ==
    { <<modulator, carrier>> \in (1..6) \X (1..6) :
        alg.modulation_matrix[modulator][carrier] > 0 }

\* ---------------------------------------------------------------- oscillators.c

\* A frequency is counted in mHz and a phase in units of which g_sample_rate
\* * 1000 make one cycle, so that freq / g_sample_rate is the frequency
\* itself.
PhaseOne == g_sample_rate * 1000

\* 440.0 * pow(2.0, (midi_note - 69) / 12.0) for the notes 120..131.
TopOctave ==
    Arr(<< 8372018, 8869844, 9397273, 9956063, 10548082, 11175303,
           11839822, 12543854, 13289750, 14080000, 14917240, 15804266 >>)

RECURSIVE Pow2(_)
Pow2(k) == IF k = 0 THEN 1 ELSE 2 * Pow2(k - 1)

\* The note of the top octave with the same name, halved once per octave
\* below it.
midi_note_to_frequency(midi_note) ==
    TopOctave[midi_note % 12] \div Pow2(10 - (midi_note \div 12))

\* pow(2.0, (detune / 7.0) * 0.01) in millionths, for detune -7..7.
DetuneFactor(detune) ==
    Arr(<< 993092, 994076, 995061, 996047, 997034, 998022, 999010, 1000000,
           1000991, 1001982, 1002975, 1003969, 1004963, 1005959,
           1006956 >>)[detune + 7]

\* note_freq * op->freq_ratio * detune_factor
OperatorFreq(note_freq, op) ==
    MulDiv(MulDiv(note_freq, op.freq_ratio, RatioOne),
           DetuneFactor(op.detune), 1000000)

\* sin(pi * a / 1000) in thousandths for a in 0..1000: 16 y / (5 - 4 y) with
\* y = (a / 1000) * (1 - a / 1000), which is within 0.002 of the sine.
HalfSine(a) ==
    LET y == a * (1000 - a)
    IN  (16 * y) \div ((5000000 - 4 * y) \div 1000)

\* sin(TWO_PI * phase) in thousandths; the sine has period 1 in phase.
Sin2Pi(phase) ==
    LET a == (phase % PhaseOne) \div (PhaseOne \div 2000)
    IN  IF a < 1000 THEN HalfSine(a) ELSE -HalfSine(a - 1000)

\* The LFO phase is counted in units of which 99 * 1270 / 6 * g_sample_rate
\* make one cycle: lfo_speed / 99.0 * 6.0 * (0.1 + mod_wheel * 2.9) /
\* g_sample_rate is then lfo_speed * (127 + 29 * v) for mod_wheel = v / 127.
LfoOne == 20955 * g_sample_rate

\* init_operators: the note frequency, no samples played, the LFO at phase 0;
\* every operator at phase 0 with its frequency, its keyboard rate scaling,
\* (midi_note - 60) / 12 * (key_rate_scaling / 7) in 84ths, its envelope at
\* the start of Attack and output 0.  feedback_value is what process_operators
\* handed to process_algorithm last.
init_operators(patch, midi_note, velocity) ==
    [ note_freq      |-> midi_note_to_frequency(midi_note),
      midi_note      |-> midi_note,
      velocity       |-> velocity,
      samples_played |-> 0,
      lfo_phase      |-> 0,
      feedback_value |-> 0,
      operators |->
        PerOperator(LAMBDA i :
           LET op == patch.operators[i]
               rate_scale == (midi_note - 60) * op.key_rate_scaling
           IN  [ phase      |-> 0,
                 freq       |-> OperatorFreq(midi_note_to_frequency(midi_note),
                                             op),
                 rate_scale |-> rate_scale,
                 env        |-> init_envelope(op, rate_scale),
                 output     |-> 0 ]) ]

\* What process_operators returns stands for the oscillators' output by its
\* amplitude: the operators' levels output_level / 99 * env_level, averaged,
\* in 990ths.
OperatorLevel(op, env) == ((env.level \div 1000000) * op.output_level) \div 99

RECURSIVE SumLevels(_, _, _)
SumLevels(patch, operators, i) ==
    IF i > MAX_OPERATORS THEN 0
    ELSE OperatorLevel(patch.operators[i], operators[i].env)
         + SumLevels(patch, operators, i + 1)

\* 0.1 + mod_wheel * 2.9 in 1270ths, for the system g_midi_system is.
SpeedMultiplier(g) ==
    LET mod_wheel == IF g.active /\ g.play_mode THEN g.controllers.mod_wheel
                     ELSE 0
    IN  127 + 29 * (mod_wheel \div 8192)

\* phase += increment; if (phase >= 1.0) phase -= 1.0;
Advance(phase, increment, one) ==
    IF phase + increment >= one THEN phase + increment - one
    ELSE phase + increment

\* One sample: the LFO advances; every operator's envelope takes one
\* update_envelope step, its output becomes the sine of its phase times its
\* level (in 1/990000) and its phase advances by freq / g_sample_rate; then
\* feedback_value = operators[0].output * feedback / 7.0 * 0.1 (in
\* 1/69300000) goes to process_algorithm.
process_operators(g, voice, patch) ==
    LET operators ==
          PerOperator(LAMBDA i :
             LET env == update_envelope(voice.operators[i].env,
                                        patch.operators[i],
                                        voice.operators[i].rate_scale)
             IN  [voice.operators[i] EXCEPT
                    !.env = env,
                    !.output = Sin2Pi(voice.operators[i].phase)
                               * OperatorLevel(patch.operators[i], env),
                    !.phase = Advance(@, voice.operators[i].freq, PhaseOne)])
    IN  [ sample |-> SumLevels(patch, operators, 1) \div MAX_OPERATORS,
          voice  |-> [voice EXCEPT
                        !.lfo_phase = Advance(@, patch.lfo_speed
                                                 * SpeedMultiplier(g), LfoOne),
                        !.operators = operators,
                        !.feedback_value = operators[1].output * patch.feedback,
                        !.samples_played = @ + 1] ]

\* ---------------------------------------------------------------- midi_input.c

\* 1.0f for a controller value; midi_to_float, midi_to_bipolar and the pitch
\* bend divide by 127 or by 8192.
CtlOne == 127 * 8192

midi_to_float(midi_value) == midi_value * 8192
midi_to_bipolar(midi_value) == (2 * midi_value - 127) * 8192

\* memset(&controllers, 0, sizeof(midi_controllers_t))
ZeroControllers ==
    [ pitch_bend |-> 0, mod_wheel |-> 0, breath |-> 0, foot |-> 0,
      volume |-> 0, expression |-> 0, pan |-> 0,
      sustain_pedal |-> FALSE, portamento |-> FALSE,
      controllers |-> [c \in 0..127 |-> 0] ]

ZeroParser ==
    [ running_status |-> 0, data_bytes_needed |-> 0, data_bytes_received |-> 0,
      data_buffer |-> [i \in 0..2 |-> 0],
      in_sysex |-> FALSE, sysex_buffer |-> <<>>, sysex_length |-> 0 ]

ZeroVoice ==
    [ active |-> FALSE, midi_note |-> 0, velocity |-> 0, channel |-> 0,
      synth_voice |->
        [ note_freq |-> 0, midi_note |-> 0, velocity |-> 0,
          samples_played |-> 0, lfo_phase |-> 0, feedback_value |-> 0,
          operators |-> PerOperator(LAMBDA i :
                           [ phase |-> 0, freq |-> 0, rate_scale |-> 0,
                             env |-> [stage |-> 0, level |-> 0,
                                      rate |-> 0, target |-> 0],
                             output |-> 0 ]) ],
      note_on_time |-> 0, sustain_held |-> FALSE ]

\* midi_input_system_t g_midi_system = {0};
ZeroSystem ==
    [ active |-> FALSE, play_mode |-> FALSE,
      current_patch |-> ZeroPatch,
      voices |-> [i \in 0..(MAX_VOICES - 1) |-> ZeroVoice],
      voice_count |-> 0,
      parser |-> ZeroParser,
      controllers |-> ZeroControllers,
      current_channel |-> 0,
      audio_output_handle |-> FALSE,
      notes_played |-> 0, voice_steals |-> 0, midi_errors |-> 0 ]

\* A call in progress: the system it works on, the time get_time_microseconds
\* returns during it, and what it has handed on so far: the messages given to
\* midi_handle_message and the slots allocate_voice returned.
Call(g, now) == [g |-> g, now |-> now, dispatched |-> <<>>, allocated |-> <<>>]

get_time_microseconds(x) == x.now

\* The voice as allocate_voice initialises it.
NewVoice(x, midi_note, velocity, channel) ==
    [ active       |-> TRUE,
      midi_note    |-> midi_note,
      velocity     |-> velocity,
      channel      |-> channel,
      note_on_time |-> get_time_microseconds(x),
      sustain_held |-> FALSE,
      synth_voice  |-> init_operators(x.g.current_patch, midi_note, velocity) ]

Slots == 0..(MAX_VOICES - 1)

\* The first loop of allocate_voice run from the last slot down.
LastInactive(voices) ==
    IF \A i \in Slots : voices[i].active THEN -1
    ELSE CHOOSE i \in Slots :
           /\ ~voices[i].active
           /\ \A j \in (i + 1)..(MAX_VOICES - 1) : voices[j].active

\* The first loop of allocate_voice: the first inactive slot, or -1.
FirstInactive(voices) ==
    IF \A i \in 0..(MAX_VOICES - 1) : voices[i].active THEN -1
    ELSE CHOOSE i \in 0..(MAX_VOICES - 1) :
           /\ ~voices[i].active
           /\ \A j \in 0..(i - 1) : voices[j].active

\* The second loop of allocate_voice with its comparison turned round.
RECURSIVE NewestVoice(_, _, _)
NewestVoice(voices, i, oldest_voice) ==
    IF i = MAX_VOICES THEN oldest_voice
    ELSE NewestVoice(voices, i + 1,
                     IF voices[i].note_on_time > voices[oldest_voice].note_on_time
                       THEN i ELSE oldest_voice)

\* The second loop of allocate_voice, from slot i on.
RECURSIVE OldestVoice(_, _, _)
OldestVoice(voices, i, oldest_voice) ==
    IF i = MAX_VOICES THEN oldest_voice
    ELSE OldestVoice(voices, i + 1,
                     IF voices[i].note_on_time < voices[oldest_voice].note_on_time
                       THEN i ELSE oldest_voice)

\* allocate_voice without its call of init_operators: the slot keeps the
\* phases and envelopes of the voice that sounded there before.
AllocateKeepOperators(x, midi_note, velocity, channel) ==
    LET free == FirstInactive(x.g.voices)
        oldest_voice == OldestVoice(x.g.voices, 1, 0)
        slot == IF free >= 0 THEN free ELSE oldest_voice
        voice == [NewVoice(x, midi_note, velocity, channel) EXCEPT
                    !.synth_voice = x.g.voices[slot].synth_voice]
    IN  IF free >= 0
          THEN [x EXCEPT !.g.voices[free] = voice,
                         !.g.voice_count = @ + 1,
                         !.allocated = Append(@, free)]
        ELSE [x EXCEPT !.g.voices[oldest_voice] = voice,
                       !.g.voice_steals = @ + 1,
                       !.allocated = Append(@, oldest_voice)]

allocate_voice(x, midi_note, velocity, channel) ==
    LET free == FirstInactive(x.g.voices)
        oldest_voice == OldestVoice(x.g.voices, 1, 0)
        voice == NewVoice(x, midi_note, velocity, channel)
    IN  IF free >= 0
          THEN [x EXCEPT !.g.voices[free] = voice,
                         !.g.voice_count = @ + 1,
                         !.allocated = Append(@, free)]
        ELSE [x EXCEPT !.g.voices[oldest_voice] = voice,
                       !.g.voice_steals = @ + 1,
                       !.allocated = Append(@, oldest_voice)]

\* The slot of the first active voice with this note and channel, or -1 (NULL).
find_voice(g, midi_note, channel) ==
    LET match(i) == /\ g.voices[i].active
                    /\ g.voices[i].midi_note = midi_note
                    /\ g.voices[i].channel = channel
    IN  IF \A i \in 0..(MAX_VOICES - 1) : ~match(i) THEN -1
        ELSE CHOOSE i \in 0..(MAX_VOICES - 1) :
               match(i) /\ \A j \in 0..(i - 1) : ~match(j)

\* release_all_voices without the line that clears sustain_held.
ReleaseAllKeepHeld(g) ==
    [g EXCEPT !.voices = [i \in 0..(MAX_VOICES - 1) |->
                            [g.voices[i] EXCEPT !.active = FALSE]],
              !.voice_count = 0]

release_all_voices(g) ==
    [g EXCEPT !.voices = [i \in 0..(MAX_VOICES - 1) |->
                            [g.voices[i] EXCEPT !.active = FALSE,
                                                !.sustain_held = FALSE]],
              !.voice_count = 0]

\* trigger_release on all six operator envelopes of a voice.
ReleaseVoice(voice, patch) ==
    [voice EXCEPT !.synth_voice.operators =
       PerOperator(LAMBDA i :
          [voice.synth_voice.operators[i] EXCEPT
             !.env = trigger_release(@, patch.operators[i],
                                     voice.synth_voice.operators[i].rate_scale)])]

handle_note_on(x, channel, note, velocity) ==
    IF note > 127 \/ velocity = 0 THEN x
    ELSE [allocate_voice(x, note, velocity, channel) EXCEPT
            !.g.notes_played = @ + 1]

handle_note_off(x, channel, note, velocity) ==
    LET v == find_voice(x.g, note, channel)
    IN  IF v < 0 THEN x
        ELSE IF x.g.controllers.sustain_pedal
          THEN [x EXCEPT !.g.voices[v].sustain_held = TRUE]
        ELSE [x EXCEPT !.g.voices[v] = ReleaseVoice(@, x.g.current_patch)]

\* The loop of the sustain-pedal case without its test of sustain_held.
ReleaseEveryActive(g) ==
    [g EXCEPT !.voices =
       [i \in 0..(MAX_VOICES - 1) |->
          IF g.voices[i].active
            THEN ReleaseVoice([g.voices[i] EXCEPT !.sustain_held = FALSE],
                              g.current_patch)
          ELSE g.voices[i]]]

\* The loop of the sustain-pedal case: every active voice that is
\* sustain_held is released and its flag cleared.
ReleaseSustained(g) ==
    [g EXCEPT !.voices =
       [i \in 0..(MAX_VOICES - 1) |->
          IF g.voices[i].active /\ g.voices[i].sustain_held
            THEN ReleaseVoice([g.voices[i] EXCEPT !.sustain_held = FALSE],
                              g.current_patch)
          ELSE g.voices[i]]]

\* The reset case without the two lines that restore volume and expression.
ResetEveryController(g) ==
    [g EXCEPT !.controllers = ZeroControllers]

\* case MIDI_CC_ALL_CONTROLLERS_OFF: memset, then volume and expression 1.0f.
ResetControllers(g) ==
    [g EXCEPT !.controllers =
       [ZeroControllers EXCEPT !.volume = CtlOne, !.expression = CtlOne]]

handle_control_change(x, channel, controller, value) ==
    LET g == [x.g EXCEPT !.controllers.controllers[controller] =
                            midi_to_float(value)]
    IN  [x EXCEPT !.g =
          CASE controller = MIDI_CC_MODWHEEL ->
                 [g EXCEPT !.controllers.mod_wheel = midi_to_float(value)]
            [] controller = MIDI_CC_BREATH ->
                 [g EXCEPT !.controllers.breath = midi_to_float(value)]
            [] controller = MIDI_CC_FOOT ->
                 [g EXCEPT !.controllers.foot = midi_to_float(value)]
            [] controller = MIDI_CC_VOLUME ->
                 [g EXCEPT !.controllers.volume = midi_to_float(value)]
            [] controller = MIDI_CC_EXPRESSION ->
                 [g EXCEPT !.controllers.expression = midi_to_float(value)]
            [] controller = MIDI_CC_PAN ->
                 [g EXCEPT !.controllers.pan = midi_to_bipolar(value)]
            [] controller = MIDI_CC_SUSTAIN_PEDAL ->
                 LET h == [g EXCEPT !.controllers.sustain_pedal = (value >= 64)]
                 IN  IF ~h.controllers.sustain_pedal THEN ReleaseSustained(h)
                     ELSE h
            [] controller = MIDI_CC_PORTAMENTO ->
                 [g EXCEPT !.controllers.portamento = (value >= 64)]
            [] controller \in {MIDI_CC_ALL_SOUND_OFF, MIDI_CC_ALL_NOTES_OFF} ->
                 release_all_voices(g)
            [] controller = MIDI_CC_ALL_CONTROLLERS_OFF -> ResetControllers(g)
            [] OTHER -> g]

\* ((float)bend_value - 8192.0f) / 8192.0f
handle_pitch_bend(x, channel, bend_value) ==
    [x EXCEPT !.g.controllers.pitch_bend = (bend_value - 8192) * 127]

\* Both only print: loading a patch and applying pressure are left TODO.
handle_program_change(x, channel, program) == x
handle_channel_pressure(x, channel, pressure) == x

\* The Note On case without its test of the velocity.
NoteOnAnyVelocity(x, channel, data1, data2) ==
    handle_note_on(x, channel, data1, data2)

\* case MIDI_NOTE_ON: velocity 0 goes to handle_note_off.
NoteOnCase(x, channel, data1, data2) ==
    IF data2 > 0 THEN handle_note_on(x, channel, data1, data2)
    ELSE handle_note_off(x, channel, data1, data2)

\* The switch on the message type.
MessageSwitch(x, msg_type, channel, data1, data2) ==
    CASE msg_type = MIDI_NOTE_ON -> NoteOnCase(x, channel, data1, data2)
      [] msg_type = MIDI_NOTE_OFF ->
           handle_note_off(x, channel, data1, data2)
      [] msg_type = MIDI_CONTROL_CHANGE ->
           handle_control_change(x, channel, data1, data2)
      [] msg_type = MIDI_PITCH_BEND ->
           handle_pitch_bend(x, channel, data1 + data2 * 128)
      [] msg_type = MIDI_PROGRAM_CHANGE ->
           handle_program_change(x, channel, data1)
      [] msg_type = MIDI_CHANNEL_PRESSURE ->
           handle_channel_pressure(x, channel, data1)
      [] OTHER -> x

\* midi_handle_message without the test of the channel.
HandleAnyChannel(x, status, data1, data2) ==
    MessageSwitch(x, (status \div 16) * 16, status % 16, data1, data2)

midi_handle_message(x, status, data1, data2) ==
    LET msg_type == (status \div 16) * 16
        channel == status % 16
    IN  IF channel # x.g.current_channel THEN x
        ELSE MessageSwitch(x, msg_type, channel, data1, data2)

\* The call midi_parse_byte makes for a complete message.
Dispatch(x, status, data1, data2) ==
    midi_handle_message([x EXCEPT !.dispatched =
                            Append(@, <<status, data1, data2>>)],
                        status, data1, data2)

\* The data bytes a channel status byte announces: one for Program Change
\* and Channel Pressure, two for every other type.
DataBytesNeeded(status) ==
    IF (status \div 16) * 16 \in {MIDI_PROGRAM_CHANGE, MIDI_CHANNEL_PRESSURE}
      THEN 1 ELSE 2

\* The SysEx branch without its test of the buffer size.
StoreSysexUnchecked(x, byte) ==
    [x EXCEPT !.g.parser.sysex_buffer = Append(@, byte),
              !.g.parser.sysex_length = @ + 1]

\* A data byte while in_sysex: stored if the buffer has room, else dropped.
StoreSysex(x, byte) ==
    IF x.g.parser.sysex_length < SYSEX_BUFFER_SIZE
      THEN [x EXCEPT !.g.parser.sysex_buffer = Append(@, byte),
                     !.g.parser.sysex_length = @ + 1]
    ELSE x

\* The orphan branch without its count.
OrphanDataByteUncounted(x) == x

\* A data byte outside SysEx with no running status.
OrphanDataByte(x) ==
    [x EXCEPT !.g.midi_errors = @ + 1]

midi_parse_byte(x, byte) ==
    LET parser == x.g.parser
    IN  IF byte >= 128
          THEN IF byte = MIDI_SYSTEM_EXCLUSIVE
                 THEN [x EXCEPT !.g.parser.in_sysex = TRUE,
                                !.g.parser.sysex_length = 0,
                                !.g.parser.sysex_buffer = <<>>]
               ELSE IF byte = MIDI_END_OF_EXCLUSIVE
                 THEN [x EXCEPT !.g.parser.in_sysex = FALSE]
               ELSE IF byte >= MIDI_REALTIME_FIRST THEN x
               ELSE [x EXCEPT
                       !.g.parser.running_status = byte,
                       !.g.parser.data_bytes_received = 0,
                       !.g.parser.data_bytes_needed = DataBytesNeeded(byte)]
        ELSE IF parser.in_sysex THEN StoreSysex(x, byte)
        ELSE IF parser.running_status = 0 THEN OrphanDataByte(x)
        ELSE LET data_buffer == [parser.data_buffer EXCEPT
                                   ![parser.data_bytes_received] = byte]
                 received == parser.data_bytes_received + 1
                 stored == [x EXCEPT !.g.parser.data_buffer = data_buffer,
                                     !.g.parser.data_bytes_received = received]
             IN  IF received >= parser.data_bytes_needed
                   THEN [Dispatch(stored, parser.running_status,
                                  IF parser.data_bytes_needed > 0
                                    THEN data_buffer[0] ELSE 0,
                                  IF parser.data_bytes_needed > 1
                                    THEN data_buffer[1] ELSE 0)
                           EXCEPT !.g.parser.data_bytes_received = 0]
                 ELSE stored

\* The loop of midi_input_callback over the packet, from byte i on.
RECURSIVE ParseBytes(_, _, _)
ParseBytes(x, data, i) ==
    IF i > Len(data) THEN x
    ELSE ParseBytes(midi_parse_byte(x, data[i]), data, i + 1)

midi_input_callback(x, data) ==
    IF ~x.g.active \/ ~x.g.play_mode THEN x
    ELSE ParseBytes(x, data, 1)

\* pow(2.0, pitch_bend * 2.0 / 12.0) in millionths, by the first four terms of
\* the exponential series in x = pitch_bend * ln 2 / 6 (within 0.00002).
BendFactor(pitch_bend) ==
    LET x == (((Abs(pitch_bend) * 1000) \div CtlOne) * 115525) \div 1000
        x2 == ((x \div 100) * (x \div 100)) \div 200
        x3 == (x2 * (x \div 100)) \div 30000
    IN  IF pitch_bend >= 0 THEN 1000000 + x + x2 + x3
        ELSE 1000000 - x + x2 - x3

midi_note_to_frequency_with_bend(midi_note, pitch_bend) ==
    MulDiv(midi_note_to_frequency(midi_note), BendFactor(pitch_bend), 1000000)

\* apply_controllers_to_voice: every operator's frequency from the note of
\* the voice, the pitch bend, and the ratio and detune of the current patch.
apply_controllers_to_voice(g, voice) ==
    LET base_freq == midi_note_to_frequency_with_bend(voice.midi_note,
                                                      g.controllers.pitch_bend)
    IN  [voice EXCEPT !.synth_voice.operators =
           PerOperator(LAMBDA op :
              [voice.synth_voice.operators[op] EXCEPT
                 !.freq = OperatorFreq(base_freq,
                                       g.current_patch.operators[op])])]

\* What one sample of a voice adds to its frame: sample * volume * expression
\* * (velocity / 127.0) * 0.5f.
MixGain(g, velocity, sample) ==
    ((((((sample * g.controllers.volume) \div CtlOne)
          * g.controllers.expression) \div CtlOne) * velocity) \div 127) \div 2

\* frame_count passes of the frame loop of generate_audio_block for one voice
\* whose operators have the frequencies apply_controllers_to_voice gives
\* them: first half before second half.
RECURSIVE RenderFrames(_, _, _)
RenderFrames(g, voice, frame_count) ==
    IF frame_count = 1
      THEN LET p == process_operators(g, voice.synth_voice, g.current_patch)
           IN  [ samples |-> <<MixGain(g, voice.velocity, p.sample)>>,
                 voice   |-> [voice EXCEPT !.synth_voice = p.voice] ]
    ELSE LET a == RenderFrames(g, voice, frame_count \div 2)
             b == RenderFrames(g, a.voice, frame_count - (frame_count \div 2))
         IN  [ samples |-> a.samples \o b.samples, voice |-> b.voice ]

\* The frame loop of generate_audio_block for one voice.  The loop calls
\* apply_controllers_to_voice before every sample; within one call of
\* generate_audio_block taken as a whole the controllers and the patch stay
\* as they are and every call after the first assigns what is there.
RenderVoice(g, voice, frame_count) ==
    RenderFrames(g, apply_controllers_to_voice(g, voice), frame_count)

\* if (... env.level > 0.001) voice_finished = false;
EnvelopeFinished(env) == env.level <= LevelOne \div 1000

\* bool voice_finished: no operator envelope level above 0.001.
VoiceFinished(voice) ==
    \A op \in 1..MAX_OPERATORS :
       EnvelopeFinished(voice.synth_voice.operators[op].env)

\* The voice loop without its test of voice->active.
RECURSIVE RenderEveryVoice(_, _, _)
RenderEveryVoice(g, frame_count, voice_idx) ==
    IF voice_idx = MAX_VOICES THEN <<>>
    ELSE <<RenderVoice(g, g.voices[voice_idx], frame_count)>>
         \o RenderEveryVoice(g, frame_count, voice_idx + 1)

\* The voice loop of generate_audio_block from slot voice_idx on: what each
\* slot renders (no samples for an inactive slot, which the loop skips).
RECURSIVE RenderVoices(_, _, _)
RenderVoices(g, frame_count, voice_idx) ==
    IF voice_idx = MAX_VOICES THEN <<>>
    ELSE <<IF g.voices[voice_idx].active
             THEN RenderVoice(g, g.voices[voice_idx], frame_count)
           ELSE [samples |-> <<>>, voice |-> g.voices[voice_idx]]>>
         \o RenderVoices(g, frame_count, voice_idx + 1)

\* output_buffer[frame] after the voice loop: the sum of what was mixed in.
RECURSIVE MixVoices(_, _, _)
MixVoices(rendered, frame, voice_idx) ==
    IF voice_idx = MAX_VOICES THEN 0
    ELSE (IF rendered[voice_idx + 1].samples = <<>> THEN 0
          ELSE rendered[voice_idx + 1].samples[frame])
         + MixVoices(rendered, frame, voice_idx + 1)

\* generate_audio_block without the voice_count-- of a finished voice.
GenerateKeepingCount(g, frame_count) ==
    IF ~g.active \/ ~g.play_mode
      THEN [ g |-> g, output_buffer |-> [f \in 1..frame_count |-> 0],
             mixed |-> {} ]
    ELSE LET rendered == RenderVoices(g, frame_count, 0)
             finished == {i \in 0..(MAX_VOICES - 1) :
                            /\ g.voices[i].active
                            /\ VoiceFinished(rendered[i + 1].voice)}
         IN  [ g |-> [g EXCEPT
                        !.voices = [i \in 0..(MAX_VOICES - 1) |->
                                      IF i \in finished
                                        THEN [rendered[i + 1].voice
                                                EXCEPT !.active = FALSE]
                                      ELSE rendered[i + 1].voice]],
               output_buffer |-> [f \in 1..frame_count |->
                                    MixVoices(rendered, f, 0)],
               mixed |-> {i \in 0..(MAX_VOICES - 1) :
                            rendered[i + 1].samples # <<>>} ]

\* The block: silence unless active and in play mode; else every active voice
\* renders frame_count samples into the mix and is marked inactive when its
\* envelopes have finished.  mixed: the slots whose samples entered the sum.
generate_audio_block(g, frame_count) ==
    IF ~g.active \/ ~g.play_mode
      THEN [ g |-> g, output_buffer |-> [f \in 1..frame_count |-> 0],
             mixed |-> {} ]
    ELSE LET rendered == RenderVoices(g, frame_count, 0)
             finished == {i \in 0..(MAX_VOICES - 1) :
                            /\ g.voices[i].active
                            /\ VoiceFinished(rendered[i + 1].voice)}
         IN  [ g |-> [g EXCEPT
                        !.voices = [i \in 0..(MAX_VOICES - 1) |->
                                      IF i \in finished
                                        THEN [rendered[i + 1].voice
                                                EXCEPT !.active = FALSE]
                                      ELSE rendered[i + 1].voice],
                        !.voice_count = @ - Cardinality(finished)],
               output_buffer |-> [f \in 1..frame_count |->
                                    MixVoices(rendered, f, 0)],
               mixed |-> {i \in 0..(MAX_VOICES - 1) :
                            rendered[i + 1].samples # <<>>} ]

\* What midi_input_initialize makes of the environment: the mutex, the MIDI
\* platform or the audio output may fail to initialise.
InitOutcomes == {"ok", "mutex_failed", "platform_failed", "audio_failed"}

midi_input_initialize(g, patch, channel, outcome) ==
    IF g.active \/ outcome \in {"mutex_failed", "platform_failed"} THEN g
    ELSE LET h == [g EXCEPT
                     !.current_patch = patch,
                     !.controllers =
                        [ZeroControllers EXCEPT
                           !.volume = CtlOne,
                           !.expression = CtlOne,
                           !.controllers[MIDI_CC_VOLUME] = CtlOne,
                           !.controllers[MIDI_CC_EXPRESSION] = CtlOne],
                     !.parser = ZeroParser,
                     !.current_channel = (channel - 1) % 16]
         IN  IF outcome = "audio_failed"
               THEN [h EXCEPT !.audio_output_handle = FALSE]
             ELSE [h EXCEPT !.audio_output_handle = TRUE, !.active = TRUE]

midi_input_stop_play_mode(g) ==
    IF ~g.play_mode THEN g
    ELSE release_all_voices([g EXCEPT !.play_mode = FALSE])

\* Stops play mode, releases all voices, shuts the audio output and the MIDI
\* platform down and clears the whole system with memset.
midi_input_shutdown(g) ==
    IF ~g.active THEN g
    ELSE LET stopped == IF g.play_mode THEN midi_input_stop_play_mode(g) ELSE g
             released == release_all_voices(stopped)
         IN  IF released.active THEN ZeroSystem ELSE released

\* audio_started: what audio_output_start returns.
midi_input_start_play_mode(g, audio_started) ==
    IF ~g.active \/ g.play_mode \/ ~audio_started THEN g
    ELSE [g EXCEPT !.play_mode = TRUE]

\* ---------------------------------------------------------------- state

VARIABLES
    g_midi_system,   \* midi_input_system_t g_midi_system
    clock,           \* CLOCK_MONOTONIC in microseconds, as last read
    last_call,       \* the entry point called last and its arguments
    dispatched,      \* the messages that call gave to midi_handle_message
    allocated,       \* the slots allocate_voice returned during that call
    mixed,           \* the slots that call mixed into the audio block
    output_buffer,   \* the audio block that call filled
    threads,         \* voice_mutex, the drivers, and where the MIDI thread,
                     \* the audio thread and a shutdown in progress stand
    codec,           \* the patch and the SysEx dump the codec was given, what
                     \* it made of them, and the codec calls made so far
    render           \* main rendering a note to a file: its patch, its
                     \* voice_state_t voice and the index i of its loop

vars == <<g_midi_system, clock, last_call, dispatched, allocated, mixed,
          output_buffer, threads, codec, render>>

\* No callback and no shutdown in progress, the mutex free, both drivers as
\* given.
ThreadsAtRest(audio_driver, midi_driver) ==
    [ voice_mutex  |-> "free",
      audio_driver |-> audio_driver,
      midi_driver  |-> midi_driver,
      midi_thread  |-> [pc |-> "idle", message |-> <<>>],
      audio_thread |-> [pc |-> "idle", frame_count |-> 0, voice_idx |-> 0,
                        frame |-> 0, blocks |-> 0, output_buffer |-> <<>>,
                        began |-> ZeroControllers, at_lock |-> {},
                        samples |-> <<>>],
      main_thread  |-> [program |-> <<>>, done |-> <<>>] ]

\* The codec has not been called.
NoCodecCall == [calls |-> <<>>]

\* main renders nothing.
NoRender == [rendering |-> FALSE]

CallOf(op, data, frame_count) ==
    [op |-> op, data |-> data, frame_count |-> frame_count]

NoOutput ==
    /\ dispatched' = <<>>
    /\ allocated' = <<>>
    /\ mixed' = {}
    /\ output_buffer' = <<>>

Init ==
    /\ g_midi_system = ZeroSystem
    /\ clock = 0
    /\ last_call = CallOf("main", <<>>, 0)
    /\ dispatched = <<>>
    /\ allocated = <<>>
    /\ mixed = {}
    /\ output_buffer = <<>>
    /\ threads = ThreadsAtRest("stopped", "stopped")
    /\ codec = NoCodecCall
    /\ render = NoRender

\* ---------------------------------------------------------------- actions

Initialize(patch, channel, outcome) ==
    /\ g_midi_system' = midi_input_initialize(g_midi_system, patch, channel,
                                              outcome)
    /\ last_call' = CallOf("midi_input_initialize", <<channel>>, 0)
    /\ NoOutput
    /\ UNCHANGED <<clock, threads, codec, render>>

StartPlayMode(audio_started) ==
    /\ g_midi_system' = midi_input_start_play_mode(g_midi_system, audio_started)
    /\ last_call' = CallOf("midi_input_start_play_mode", <<>>, 0)
    /\ NoOutput
    /\ UNCHANGED <<clock, threads, codec, render>>

StopPlayMode ==
    /\ g_midi_system' = midi_input_stop_play_mode(g_midi_system)
    /\ last_call' = CallOf("midi_input_stop_play_mode", <<>>, 0)
    /\ NoOutput
    /\ UNCHANGED <<clock, threads, codec, render>>

Shutdown ==
    /\ g_midi_system' = midi_input_shutdown(g_midi_system)
    /\ last_call' = CallOf("midi_input_shutdown", <<>>, 0)
    /\ NoOutput
    /\ UNCHANGED <<clock, threads, codec, render>>

\* The MIDI thread delivers one packet; the clock reads now while it is
\* handled, and allocate_voice is what reads it.
MidiInput(data, now) ==
    LET x == midi_input_callback(Call(g_midi_system, now), data)
    IN  /\ now >= clock
        /\ g_midi_system' = x.g
        /\ clock' = IF x.allocated = <<>> THEN clock ELSE now
        /\ last_call' = CallOf("midi_input_callback", data, 0)
        /\ dispatched' = x.dispatched
        /\ allocated' = x.allocated
        /\ mixed' = {}
        /\ output_buffer' = <<>>
        /\ UNCHANGED <<threads, codec, render>>

\* The audio thread asks for one block.
AudioBlock(frame_count) ==
    LET block == generate_audio_block(g_midi_system, frame_count)
    IN  /\ g_midi_system' = block.g
        /\ last_call' = CallOf("generate_audio_block", <<>>, frame_count)
        /\ dispatched' = <<>>
        /\ allocated' = <<>>
        /\ mixed' = block.mixed
        /\ output_buffer' = block.output_buffer
        /\ UNCHANGED <<clock, threads, codec, render>>

\* ---------------------------------------------------------------- inputs

NoteOn(channel, note, velocity) == <<MIDI_NOTE_ON + channel, note, velocity>>
NoteOff(channel, note) == <<MIDI_NOTE_OFF + channel, note, 0>>
ControlChange(channel, controller, value) ==
    <<MIDI_CONTROL_CHANGE + channel, controller, value>>

Patches == {OrganPatch, PluckPatch}
\* The clock read while a packet is handled: it may not have advanced since
\* the packet before.
Times == {clock, clock + 1}
\* Frames per audio block.
FrameCounts == {24}

\* The runs explored end where the clock or a uint32_t counter passes its
\* bound.
Within(max_clock, max_notes, max_errors) ==
    /\ clock' <= max_clock
    /\ g_midi_system'.notes_played <= max_notes
    /\ g_midi_system'.midi_errors <= max_errors

\* The runs explored end where the samples_played of a voice passes its
\* bound.
Sampled(max_samples) ==
    \A i \in 0..(MAX_VOICES - 1) :
       g_midi_system'.voices[i].synth_voice.samples_played <= max_samples

\* A system that midi_input_initialize and midi_input_start_play_mode have
\* brought to play mode on MIDI channel 1.
Playing(patch) ==
    midi_input_start_play_mode(
        midi_input_initialize(ZeroSystem, patch, 1, "ok"), TRUE)

InitPlaying ==
    /\ g_midi_system \in {Playing(patch) : patch \in Patches}
    /\ clock = 0
    /\ last_call = CallOf("midi_input_start_play_mode", <<>>, 0)
    /\ dispatched = <<>>
    /\ allocated = <<>>
    /\ mixed = {}
    /\ output_buffer = <<>>
    /\ threads = ThreadsAtRest("running", "running")
    /\ codec = NoCodecCall
    /\ render = NoRender

\* ---------------------------------------------------------------- Spec
\* The life cycle of the system with one key played and audio.

MaxClock == 1
MaxNotes == 3
\* Two blocks for a voice.
MaxSamples == 48

\* One complete message per packet.
Packets ==
    { NoteOn(0, 60, 100), NoteOff(0, 60) }

Lifecycle ==
    \/ \E patch \in Patches, outcome \in InitOutcomes :
          Initialize(patch, 1, outcome)
    \/ \E audio_started \in BOOLEAN : StartPlayMode(audio_started)
    \/ StopPlayMode
    \/ Shutdown

Next ==
    \/ Lifecycle
    \/ \E data \in Packets, now \in Times :
          MidiInput(data, now) /\ Within(MaxClock, MaxNotes, 0)
    \/ \E frame_count \in FrameCounts :
          AudioBlock(frame_count) /\ Sampled(MaxSamples)

Spec == Init /\ [][Next]_vars

\* ---------------------------------------------------------------- SpecSustain
\* A playing system: two keys, the sustain pedal, all notes off, all sound
\* off, audio, and the end of play mode.

MaxSustainNotes == 2

SustainPackets ==
    { NoteOn(0, 60, 100), NoteOn(0, 62, 100), NoteOff(0, 60), NoteOff(0, 62),
      ControlChange(0, MIDI_CC_SUSTAIN_PEDAL, 127),
      ControlChange(0, MIDI_CC_SUSTAIN_PEDAL, 0),
      ControlChange(0, MIDI_CC_ALL_NOTES_OFF, 0),
      ControlChange(0, MIDI_CC_ALL_SOUND_OFF, 0) }

InitSustain == InitPlaying /\ g_midi_system = Playing(PluckPatch)

\* The packets arrive within one microsecond of the clock.
NextSustain ==
    \/ \E data \in SustainPackets :
          MidiInput(data, clock) /\ Within(0, MaxSustainNotes, 0)
    \/ \E frame_count \in FrameCounts :
          AudioBlock(frame_count) /\ Sampled(MaxSamples)
    \/ StopPlayMode
    \/ Shutdown

SpecSustain == InitSustain /\ [][NextSustain]_vars

\* ---------------------------------------------------------------- SpecSteal
\* A playing system and a run up the keyboard with more keys than the pool
\* has voices: the next key alone or the next four keys under one status
\* byte, each packet a microsecond after the one before.

MaxStealNotes == 19

NextKey == 48 + g_midi_system.notes_played

StealPackets ==
    { NoteOn(0, NextKey, 100),
      <<MIDI_NOTE_ON, NextKey, 100, NextKey + 1, 100,
                      NextKey + 2, 100, NextKey + 3, 100>> }

InitSteal == InitPlaying /\ g_midi_system = Playing(OrganPatch)

NextSteal ==
    \E data \in StealPackets :
       MidiInput(data, clock + 1) /\ Within(MaxStealNotes, MaxStealNotes, 0)

SpecSteal == InitSteal /\ [][NextSteal]_vars

\* ---------------------------------------------------------------- SpecParser
\* A playing system fed byte streams: complete channel messages alone and in
\* pairs, running status, a lone data byte, and the SysEx framing bytes.

MaxParserNotes == 2
MaxParserErrors == 1
MaxSysexLength == 2

ProgramChange(channel, program) == <<MIDI_PROGRAM_CHANGE + channel, program>>

ChannelMessages == { NoteOn(0, 60, 64), ProgramChange(0, 5) }

RunningStatusPacket == <<144, 60, 64, 62, 64, 128, 60, 0>>

ParserPackets ==
    ChannelMessages
      \cup { first \o second : first, second \in ChannelMessages }
      \cup { RunningStatusPacket }
      \cup { <<60>>, <<MIDI_SYSTEM_EXCLUSIVE>>, <<MIDI_END_OF_EXCLUSIVE>> }

InitParser == InitPlaying /\ g_midi_system = Playing(OrganPatch)

NextParser ==
    \E data \in ParserPackets :
       /\ MidiInput(data, clock)
       /\ Within(0, MaxParserNotes, MaxParserErrors)
       /\ g_midi_system'.parser.sysex_length <= MaxSysexLength

SpecParser == InitParser /\ [][NextParser]_vars

\* ---------------------------------------------------------------- SpecSysex
\* A playing system receiving a SysEx dump longer than the buffer, one byte
\* per packet, the k-th byte of the dump being k mod 128; the dump can end
\* at any byte, with a Note On behind it in the same packet.  No packet
\* leaves a channel message half received.

MaxSysexNotes == 1
MaxSysexErrors == 1

DumpByte == g_midi_system.parser.sysex_length % 128

SysexPackets ==
    { <<MIDI_SYSTEM_EXCLUSIVE>>, <<DumpByte>>,
      <<DumpByte, MIDI_END_OF_EXCLUSIVE>> \o NoteOn(0, 60, 100) }

InitSysex == InitPlaying /\ g_midi_system = Playing(OrganPatch)

NextSysex ==
    \E data \in SysexPackets :
       /\ MidiInput(data, clock)
       /\ Within(0, MaxSysexNotes, MaxSysexErrors)
       /\ g_midi_system'.parser.data_bytes_received = 0

SpecSysex == InitSysex /\ [][NextSysex]_vars

\* ---------------------------------------------------------------- SpecControllers
\* A playing system with one key, the pedal, volume, pitch bend and the
\* controller reset, and the same messages on a channel that is not the
\* system's.

MaxControllerNotes == 1

PitchBend(channel, lsb, msb) == <<MIDI_PITCH_BEND + channel, lsb, msb>>

\* One message of every kind for the given channel.
MessagesOn(channel) ==
    { NoteOn(channel, 60, 100), NoteOn(channel, 60, 0), NoteOff(channel, 60),
      ControlChange(channel, MIDI_CC_SUSTAIN_PEDAL, 127),
      ControlChange(channel, MIDI_CC_SUSTAIN_PEDAL, 0),
      ControlChange(channel, MIDI_CC_VOLUME, 64),
      ControlChange(channel, MIDI_CC_ALL_CONTROLLERS_OFF, 0),
      ControlChange(channel, MIDI_CC_ALL_NOTES_OFF, 0),
      PitchBend(channel, 0, 96) }

ControllerPackets == MessagesOn(0) \cup MessagesOn(1)

InitControllers == InitPlaying /\ g_midi_system = Playing(OrganPatch)

NextControllers ==
    \E data \in ControllerPackets :
       MidiInput(data, clock) /\ Within(0, MaxControllerNotes, 0)

SpecControllers == InitControllers /\ [][NextControllers]_vars

\* ---------------------------------------------------------------- SpecThreads
\* The MIDI callback, the audio callback and midi_input_shutdown as threads
\* that take one step at a time: what a handler writes before it takes
\* voice_mutex, its wait for the mutex, what it does under it; the audio
\* block sample by sample; shutdown statement by statement.

MaxThreadNotes == 2
MaxBlocks == 2

\* TakesLock with handle_note_on taking no lock.
TakesLockButNoteOn(g, message) ==
    LET msg_type == (message[1] \div 16) * 16
    IN  /\ message[1] % 16 = g.current_channel
        /\ \/ msg_type = MIDI_NOTE_OFF
           \/ msg_type = MIDI_NOTE_ON /\ message[3] = 0
           \/ /\ msg_type = MIDI_CONTROL_CHANGE
              /\ \/ message[2] \in {MIDI_CC_ALL_SOUND_OFF, MIDI_CC_ALL_NOTES_OFF}
                 \/ /\ message[2] = MIDI_CC_SUSTAIN_PEDAL
                    /\ ~g.controllers.sustain_pedal

\* The messages whose handler takes voice_mutex, given the system as the
\* handler finds it after its unlocked writes.
TakesLock(g, message) ==
    LET msg_type == (message[1] \div 16) * 16
    IN  /\ message[1] % 16 = g.current_channel
        /\ \/ msg_type = MIDI_NOTE_OFF
           \/ msg_type = MIDI_NOTE_ON /\ (message[3] = 0 \/ message[2] <= 127)
           \/ /\ msg_type = MIDI_CONTROL_CHANGE
              /\ \/ message[2] \in {MIDI_CC_ALL_SOUND_OFF, MIDI_CC_ALL_NOTES_OFF}
                 \/ /\ message[2] = MIDI_CC_SUSTAIN_PEDAL
                    /\ ~g.controllers.sustain_pedal

\* What a handler has written when it reaches pthread_mutex_lock or, if it
\* takes no lock, returns.
BeforeLock(g, message) ==
    LET msg_type == (message[1] \div 16) * 16
        raw == [g EXCEPT !.controllers.controllers[message[2]] =
                            midi_to_float(message[3])]
    IN  IF message[1] % 16 # g.current_channel THEN g
        ELSE IF msg_type \in {MIDI_NOTE_ON, MIDI_NOTE_OFF}
          THEN IF TakesLock(g, message) THEN g
               ELSE midi_handle_message(Call(g, clock), message[1],
                                        message[2], message[3]).g
        ELSE IF msg_type # MIDI_CONTROL_CHANGE
          THEN midi_handle_message(Call(g, clock), message[1], message[2],
                                   message[3]).g
        ELSE IF message[2] = MIDI_CC_SUSTAIN_PEDAL
          THEN [raw EXCEPT !.controllers.sustain_pedal = (message[3] >= 64)]
        ELSE IF message[2] \in {MIDI_CC_ALL_SOUND_OFF, MIDI_CC_ALL_NOTES_OFF}
          THEN raw
        ELSE midi_handle_message(Call(g, clock), message[1], message[2],
                                 message[3]).g

\* What a handler does between pthread_mutex_lock and pthread_mutex_unlock.
UnderLock(g, message) ==
    LET msg_type == (message[1] \div 16) * 16
    IN  IF msg_type = MIDI_CONTROL_CHANGE
          THEN IF message[2] = MIDI_CC_SUSTAIN_PEDAL THEN ReleaseSustained(g)
               ELSE release_all_voices(g)
        ELSE midi_handle_message(Call(g, clock), message[1], message[2],
                                 message[3]).g

\* The MIDI driver calls midi_input_callback with one complete message: the
\* parser takes its bytes and the handler runs up to its lock.
MidiReceive(data) ==
    LET parsed == midi_input_callback(Call(g_midi_system, clock), data)
        g == BeforeLock([g_midi_system EXCEPT !.parser = parsed.g.parser],
                        data)
    IN  /\ threads.midi_driver = "running"
        /\ threads.midi_thread.pc = "idle"
        /\ g_midi_system.active /\ g_midi_system.play_mode
        /\ parsed.dispatched = <<data>>
        /\ g_midi_system' = g
        /\ threads' = [threads EXCEPT !.midi_thread =
                         [pc |-> IF TakesLock(g, data) THEN "lock" ELSE "idle",
                          message |-> data]]
        /\ UNCHANGED <<clock, last_call, dispatched, allocated, mixed,
                       output_buffer, codec, render>>

\* pthread_mutex_lock in a handler.
MidiLock ==
    /\ threads.midi_thread.pc = "lock"
    /\ threads.voice_mutex = "free"
    /\ threads' = [threads EXCEPT !.voice_mutex = "midi",
                                  !.midi_thread.pc = "locked"]
    /\ UNCHANGED <<g_midi_system, clock, last_call, dispatched, allocated,
                   mixed, output_buffer, codec, render>>

\* MidiUnlock with a handler that returns without pthread_mutex_unlock.
MidiReturnLocked ==
    /\ threads.midi_thread.pc = "locked"
    /\ g_midi_system' = UnderLock(g_midi_system, threads.midi_thread.message)
    /\ threads' = [threads EXCEPT !.midi_thread.pc = "idle"]
    /\ UNCHANGED <<clock, last_call, dispatched, allocated, mixed,
                   output_buffer, codec, render>>

\* The handler's critical section and its pthread_mutex_unlock.
MidiUnlock ==
    /\ threads.midi_thread.pc = "locked"
    /\ g_midi_system' = UnderLock(g_midi_system, threads.midi_thread.message)
    /\ threads' = [threads EXCEPT !.voice_mutex = "free",
                                  !.midi_thread.pc = "idle"]
    /\ UNCHANGED <<clock, last_call, dispatched, allocated, mixed,
                   output_buffer, codec, render>>

\* The first active slot from slot from on, MAX_VOICES if there is none: the
\* voice loop skipping inactive slots.
NextActive(g, from) ==
    LET rest == {i \in from..(MAX_VOICES - 1) : g.voices[i].active}
    IN  IF rest = {} THEN MAX_VOICES
        ELSE CHOOSE i \in rest : \A j \in rest : i <= j

ThreadFrameCounts == {2}

\* The audio driver calls generate_audio_block: the test of active and
\* play_mode and the memset of the buffer, before the lock.
AudioBegin(frame_count) ==
    LET playing == g_midi_system.active /\ g_midi_system.play_mode
    IN  /\ threads.audio_driver = "running"
        /\ threads.audio_thread.pc = "idle"
        /\ threads.audio_thread.blocks < MaxBlocks
        /\ threads' = [threads EXCEPT !.audio_thread =
             [@ EXCEPT !.pc = IF playing THEN "lock" ELSE "idle",
                       !.blocks = IF playing THEN @ ELSE @ + 1,
                       !.frame_count = frame_count,
                       !.output_buffer = [f \in 1..frame_count |-> 0],
                       !.began = g_midi_system.controllers,
                       !.at_lock = {},
                       !.samples = <<>>]]
        /\ UNCHANGED <<g_midi_system, clock, last_call, dispatched, allocated,
                       mixed, output_buffer, codec, render>>

\* pthread_mutex_lock in generate_audio_block, and the voice loop up to its
\* first active slot: the locked part of the block begins.
AudioLock ==
    LET first == NextActive(g_midi_system, 0)
    IN  /\ threads.audio_thread.pc = "lock"
        /\ threads.voice_mutex = "free"
        /\ threads' = [threads EXCEPT
             !.voice_mutex = "audio",
             !.audio_thread.pc = IF first = MAX_VOICES THEN "unlock" ELSE "mix",
             !.audio_thread.voice_idx = first,
             !.audio_thread.frame = 0,
             !.audio_thread.began = g_midi_system.controllers,
             !.audio_thread.at_lock =
                {i \in Slots : g_midi_system.voices[i].active}]
        /\ UNCHANGED <<g_midi_system, clock, last_call, dispatched, allocated,
                       mixed, output_buffer, codec, render>>

\* One pass of the frame loop: the controllers are read as they are now, the
\* sample is mixed in; after the last frame the voice is marked inactive if
\* its envelopes have finished and the voice loop goes on to the next active
\* slot.
AudioSample ==
    LET audio == threads.audio_thread
        g == g_midi_system
        voice == g.voices[audio.voice_idx]
        applied == apply_controllers_to_voice(g, voice)
        p == process_operators(g, applied.synth_voice, g.current_patch)
        rendered == [applied EXCEPT !.synth_voice = p.voice]
        last == audio.frame + 1 = audio.frame_count
        finished == last /\ VoiceFinished(rendered)
        next == IF last THEN NextActive(g, audio.voice_idx + 1)
                ELSE audio.voice_idx
    IN  /\ audio.pc = "mix"
        /\ g_midi_system' =
             [g EXCEPT !.voices[audio.voice_idx] =
                          IF finished THEN [rendered EXCEPT !.active = FALSE]
                          ELSE rendered,
                       !.voice_count = IF finished THEN @ - 1 ELSE @]
        /\ threads' = [threads EXCEPT !.audio_thread =
             [@ EXCEPT !.pc = IF next = MAX_VOICES THEN "unlock" ELSE "mix",
                       !.voice_idx = next,
                       !.frame = IF last THEN 0 ELSE @ + 1,
                       !.output_buffer[audio.frame + 1] =
                          @ + MixGain(g, voice.velocity, p.sample),
                       !.samples = Append(@,
                          [ voice_idx  |-> audio.voice_idx,
                            frame      |-> audio.frame,
                            volume     |-> g.controllers.volume,
                            expression |-> g.controllers.expression,
                            pitch_bend |-> g.controllers.pitch_bend ])]]
        /\ UNCHANGED <<clock, last_call, dispatched, allocated, mixed,
                       output_buffer, codec, render>>

\* pthread_mutex_unlock at the end of the block.
AudioUnlock ==
    /\ threads.audio_thread.pc = "unlock"
    /\ threads' = [threads EXCEPT !.voice_mutex = "free",
                                  !.audio_thread.pc = "idle",
                                  !.audio_thread.blocks = @ + 1]
    /\ UNCHANGED <<g_midi_system, clock, last_call, dispatched, allocated,
                   mixed, output_buffer, codec, render>>

\* The statements of midi_input_stop_play_mode that act on the system, in
\* the order of the code.
StopPlayProgram ==
    << "play_mode = false", "audio_output_stop", "pthread_mutex_lock",
       "release_all_voices" >>

\* ShutdownProgram with the mutex destroyed before the MIDI platform is shut
\* down.
ShutdownProgramMutexFirst ==
    << "pthread_mutex_lock", "release_all_voices", "audio_output_shutdown",
       "pthread_mutex_destroy", "midi_platform_shutdown", "memset" >>

\* The statements of midi_input_shutdown after its call of
\* midi_input_stop_play_mode, in the order of the code.
ShutdownProgram ==
    << "pthread_mutex_lock", "release_all_voices", "audio_output_shutdown",
       "midi_platform_shutdown", "pthread_mutex_destroy", "memset" >>

\* main calls midi_input_shutdown on an active system.
ShutdownCall ==
    /\ threads.main_thread.program = <<>>
    /\ threads.main_thread.done = <<>>
    /\ g_midi_system.active
    /\ threads' = [threads EXCEPT !.main_thread.program =
                     IF g_midi_system.play_mode
                       THEN StopPlayProgram \o ShutdownProgram
                     ELSE ShutdownProgram]
    /\ UNCHANGED <<g_midi_system, clock, last_call, dispatched, allocated,
                   mixed, output_buffer, codec, render>>

\* The next statement of the shutdown.  Stopping a driver waits for its
\* callback in progress to return; release_all_voices stands for the call
\* and the unlock behind it.
ShutdownStep ==
    LET statement == Head(threads.main_thread.program)
        stepped == [threads EXCEPT
                      !.main_thread.program = Tail(@),
                      !.main_thread.done = Append(@, statement)]
    IN  /\ threads.main_thread.program # <<>>
        /\ CASE statement = "play_mode = false" ->
                  /\ g_midi_system' = [g_midi_system EXCEPT !.play_mode = FALSE]
                  /\ threads' = stepped
             [] statement = "audio_output_stop" ->
                  /\ threads.audio_thread.pc = "idle"
                  /\ threads' = [stepped EXCEPT !.audio_driver =
                                   IF g_midi_system.audio_output_handle
                                     THEN "stopped" ELSE @]
                  /\ UNCHANGED g_midi_system
             [] statement = "pthread_mutex_lock" ->
                  /\ threads.voice_mutex = "free"
                  /\ threads' = [stepped EXCEPT !.voice_mutex = "main"]
                  /\ UNCHANGED g_midi_system
             [] statement = "release_all_voices" ->
                  /\ g_midi_system' = release_all_voices(g_midi_system)
                  /\ threads' = [stepped EXCEPT !.voice_mutex = "free"]
             [] statement = "audio_output_shutdown" ->
                  /\ threads.audio_thread.pc = "idle"
                  /\ g_midi_system' = [g_midi_system EXCEPT
                                         !.audio_output_handle = FALSE]
                  /\ threads' = [stepped EXCEPT !.audio_driver =
                                   IF g_midi_system.audio_output_handle
                                     THEN "shutdown" ELSE @]
             [] statement = "midi_platform_shutdown" ->
                  /\ threads.midi_thread.pc = "idle"
                  /\ threads' = [stepped EXCEPT !.midi_driver = "shutdown"]
                  /\ UNCHANGED g_midi_system
             [] statement = "pthread_mutex_destroy" ->
                  /\ threads' = [stepped EXCEPT !.voice_mutex = "destroyed"]
                  /\ UNCHANGED g_midi_system
             [] statement = "memset" ->
                  /\ g_midi_system' = ZeroSystem
                  /\ threads' = stepped
        /\ UNCHANGED <<clock, last_call, dispatched, allocated, mixed,
                       output_buffer, codec, render>>

\* One message of each kind of handler: one that takes the lock for all it
\* does, ones that write without it, one that writes and then takes it.
ThreadPackets ==
    { NoteOn(0, 60, 100), ControlChange(0, MIDI_CC_VOLUME, 64),
      PitchBend(0, 0, 96), ControlChange(0, MIDI_CC_SUSTAIN_PEDAL, 0) }

\* An initialised system, in play mode with both drivers running or not yet
\* started.
InitThreads ==
    \/ InitPlaying /\ g_midi_system = Playing(OrganPatch)
    \/ /\ g_midi_system = midi_input_initialize(ZeroSystem, OrganPatch, 1,
                                                "ok")
       /\ clock = 0
       /\ last_call = CallOf("midi_input_initialize", <<>>, 0)
       /\ dispatched = <<>>
       /\ allocated = <<>>
       /\ mixed = {}
       /\ output_buffer = <<>>
       /\ threads = ThreadsAtRest("stopped", "running")
       /\ codec = NoCodecCall
       /\ render = NoRender

NextThreads ==
    \/ \E data \in ThreadPackets :
          MidiReceive(data) /\ Within(0, MaxThreadNotes, 0)
    \/ MidiLock
    \/ MidiUnlock /\ Within(0, MaxThreadNotes, 0)
    \/ \E frame_count \in ThreadFrameCounts : AudioBegin(frame_count)
    \/ AudioLock
    \/ AudioSample
    \/ AudioUnlock
    \/ ShutdownCall
    \/ ShutdownStep

SpecThreads == InitThreads /\ [][NextThreads]_vars

\* ---------------------------------------------------------------- SpecLock
\* The threads of SpecThreads under the scheduler: a thread that holds the
\* mutex, or main in its shutdown, goes on when it can.  Nothing is assumed
\* of a thread blocked in pthread_mutex_lock (the mutex is not fair), of the
\* drivers delivering messages or asking for blocks, or of main calling the
\* shutdown.  Messages are received while notes_played is below its bound,
\* so that every handler begun can finish.

MaxLockNotes == 2

NextLock ==
    \/ \E data \in ThreadPackets :
          MidiReceive(data) /\ g_midi_system.notes_played < MaxLockNotes
    \/ MidiLock
    \/ MidiUnlock
    \/ \E frame_count \in ThreadFrameCounts : AudioBegin(frame_count)
    \/ AudioLock
    \/ AudioSample
    \/ AudioUnlock
    \/ ShutdownCall
    \/ ShutdownStep

\* Weak fairness of MidiUnlock and of AudioSample with their ENABLED written
\* out: MidiUnlock is enabled exactly where the handler is in its critical
\* section, AudioSample exactly where the block is in its frame loop, and
\* each of their steps changes threads.
FairMidiUnlock ==
    \/ []<>(threads.midi_thread.pc # "locked")
    \/ []<><<MidiUnlock>>_vars

FairAudioSample ==
    \/ []<>(threads.audio_thread.pc # "mix")
    \/ []<><<AudioSample>>_vars

SpecLock ==
    /\ InitThreads
    /\ [][NextLock]_vars
    /\ FairMidiUnlock
    /\ FairAudioSample
    /\ WF_vars(AudioUnlock)
    /\ WF_vars(ShutdownStep)

\* ---------------------------------------------------------------- dx7_sysex.c

\* data[from] + ... + data[to - 1], as the loop of calculate_dx7_checksum
\* adds them up (halved so that the evaluation stays shallow).
RECURSIVE ByteSum(_, _, _)
ByteSum(data, from, to) ==
    IF to <= from THEN 0
    ELSE IF to = from + 1 THEN data[from]
    ELSE LET mid == (from + to) \div 2
         IN  ByteSum(data, from, mid) + ByteSum(data, mid, to)

\* The checksum without the two's complement: the low seven bits of the sum.
SumLow7(data, length) == ByteSum(data, 0, length) % 128

calculate_dx7_checksum(data, length) ==
    (128 - (ByteSum(data, 0, length) % 128)) % 128

\* The ratios coarse + fine/99 for which the double (ratio - coarse) * 99.0
\* falls just below fine, so that the cast to uint8_t gives fine - 1; listed
\* for CoarseDomain and FineDomain.
FineRoundsDown ==
    { <<1, 2>>, <<1, 3>> }

\* (uint8_t)(fractional * 99.0)
TruncFine(coarse_int, fractional) ==
    LET fine == fractional \div 100
    IN  IF fractional % 100 = 0 /\ <<coarse_int, fine>> \in FineRoundsDown
          THEN fine - 1
        ELSE fine % 256

\* freq_ratio_to_dx7_format: <<coarse, fine>>.
freq_ratio_to_dx7_format(ratio) ==
    IF ratio < RatioOne THEN <<0, 0>>
    ELSE LET coarse_int == Min(ratio \div RatioOne, 31)
             fine == TruncFine(coarse_int, ratio - coarse_int * RatioOne)
         IN  <<coarse_int, Min(fine, 99)>>

\* dx7_format_to_freq_ratio without the fine part.
FormatToCoarseRatio(coarse, fine) ==
    IF coarse = 0 THEN Hundredths(50) ELSE coarse * RatioOne

dx7_format_to_freq_ratio(coarse, fine) ==
    IF coarse = 0 THEN Hundredths(50) ELSE coarse * RatioOne + fine * 100

\* The 21 bytes of one operator.
OperatorBytes(operator) ==
    LET format == freq_ratio_to_dx7_format(operator.freq_ratio)
    IN  Arr(<< operator.env_rates[ENV_ATTACK] % 256,
               operator.env_rates[ENV_DECAY1] % 256,
               operator.env_rates[ENV_DECAY2] % 256,
               operator.env_rates[ENV_RELEASE] % 256,
               operator.env_levels[ENV_ATTACK] % 256,
               operator.env_levels[ENV_DECAY1] % 256,
               operator.env_levels[ENV_DECAY2] % 256,
               operator.env_levels[ENV_RELEASE] % 256,
               operator.key_level_scale_break_point % 256,
               operator.key_level_scale_left_depth % 256,
               operator.key_level_scale_right_depth % 256,
               operator.key_level_scale_left_curve % 4,
               (operator.key_level_scale_right_curve % 4)
                  + (operator.key_rate_scaling % 8) * 4,
               (operator.key_vel_sens % 8) * 4,
               operator.output_level % 256,
               (operator.osc_sync % 2) + (format[1] % 32) * 2,
               format[2],
               (operator.osc_sync % 2) + ((operator.detune + 7) % 16) * 2,
               0, 0, 0 >>)

\* Byte i of the name field: the name, then spaces.
NameByte(name, i) == IF i < Len(name) THEN name[i + 1] % 256 ELSE 32

\* The 29 bytes of the global parameters, voice_data[126..154].
GlobalBytes(patch) ==
    Arr(<< patch.pitch_env_rates[0] % 256, patch.pitch_env_rates[1] % 256,
           patch.pitch_env_rates[2] % 256, patch.pitch_env_rates[3] % 256,
           patch.pitch_env_levels[0] % 256, patch.pitch_env_levels[1] % 256,
           patch.pitch_env_levels[2] % 256, patch.pitch_env_levels[3] % 256,
           (patch.algorithm - 1) % 32,
           patch.feedback % 8,
           patch.lfo_speed % 256, patch.lfo_delay % 256,
           patch.lfo_pmd % 256, patch.lfo_amd % 256,
           (patch.lfo_sync % 2) + (patch.lfo_wave % 8) * 2
              + (patch.lfo_pitch_mod_sens % 8) * 16,
           (patch.transpose + 24) % 64,
           NameByte(patch.name, 0), NameByte(patch.name, 1),
           NameByte(patch.name, 2), NameByte(patch.name, 3),
           NameByte(patch.name, 4), NameByte(patch.name, 5),
           NameByte(patch.name, 6), NameByte(patch.name, 7),
           NameByte(patch.name, 8), NameByte(patch.name, 9),
           63, 0, 0 >>)

\* The voice data of a patch: the operators in reverse order (block 0 is
\* operators[5]), then the global parameters.
VoiceData(patch) ==
    LET blocks == [op \in 0..5 |-> OperatorBytes(patch.operators[6 - op])]
        global == GlobalBytes(patch)
    IN  [i \in 0..154 |-> IF i < 126 THEN blocks[i \div 21][i % 21]
                          ELSE global[i - 126]]

\* dx7_sysex_voice_t
Sysex(sub_status, voice_data, checksum) ==
    [ start_sysex    |-> MIDI_SYSTEM_EXCLUSIVE,
      manufacturer   |-> 67,
      sub_status     |-> sub_status,
      format         |-> 0,
      byte_count_msb |-> 1,
      byte_count_lsb |-> 27,
      voice_data     |-> voice_data,
      checksum       |-> checksum,
      end_sysex      |-> MIDI_END_OF_EXCLUSIVE ]

\* dx7_patch_to_sysex: the return value and *sysex, which is left as it was
\* when the channel is refused.
dx7_patch_to_sysex(patch, sysex, channel) ==
    IF channel < 0 \/ channel > 15 THEN [ok |-> FALSE, sysex |-> sysex]
    ELSE LET voice_data == VoiceData(patch)
         IN  [ok |-> TRUE,
              sysex |-> Sysex(channel, voice_data,
                              calculate_dx7_checksum(voice_data, 155))]

\* The name the decoder leaves: the ten name bytes up to the first NUL,
\* without trailing spaces.
RECURSIVE TrimSpaces(_)
TrimSpaces(name) ==
    IF name # <<>> /\ name[Len(name)] = 32
      THEN TrimSpaces(SubSeq(name, 1, Len(name) - 1))
    ELSE name

DecodedName(voice_data) ==
    LET nul == {i \in 0..9 : voice_data[142 + i] = 0}
        strlen == IF nul = {} THEN 10
                  ELSE CHOOSE i \in nul : \A j \in nul : i <= j
    IN  TrimSpaces([i \in 1..strlen |-> voice_data[141 + i]])

\* The operator the decoder reads from the 21 bytes at base.
DecodedOperator(voice_data, base) ==
    [ freq_ratio |-> dx7_format_to_freq_ratio(
                        (voice_data[base + 15] \div 2) % 32,
                        voice_data[base + 16]),
      detune     |-> ((voice_data[base + 17] \div 2) % 16) - 7,
      env_rates  |-> [stage \in 0..3 |-> voice_data[base + stage]],
      env_levels |-> [stage \in 0..3 |-> voice_data[base + 4 + stage]],
      output_level |-> voice_data[base + 14],
      key_vel_sens |-> (voice_data[base + 13] \div 4) % 8,
      key_level_scale_break_point |-> voice_data[base + 8],
      key_level_scale_left_depth  |-> voice_data[base + 9],
      key_level_scale_right_depth |-> voice_data[base + 10],
      key_level_scale_left_curve  |-> voice_data[base + 11] % 4,
      key_level_scale_right_curve |-> voice_data[base + 12] % 4,
      key_rate_scaling |-> (voice_data[base + 12] \div 4) % 8,
      osc_sync   |-> voice_data[base + 15] % 2 ]

\* The header and checksum tests of dx7_sysex_to_patch: the dump is refused.
Refused(sysex) ==
    \/ sysex.start_sysex # MIDI_SYSTEM_EXCLUSIVE
    \/ sysex.manufacturer # 67
    \/ sysex.format # 0
    \/ sysex.byte_count_msb # 1
    \/ sysex.byte_count_lsb # 27
    \/ sysex.end_sysex # MIDI_END_OF_EXCLUSIVE
    \/ calculate_dx7_checksum(sysex.voice_data, 155) # sysex.checksum

\* The patch after memset(patch, 0, sizeof(dx7_patch_t)) and the assignments
\* that follow it: every field is taken from its byte, masked and shifted,
\* and not compared with a range.
DecodedPatch(voice_data) ==
    [ name      |-> DecodedName(voice_data),
      operators |-> PerOperator(LAMBDA k :
          DecodedOperator(voice_data, (6 - k) * 21)),
      algorithm |-> (voice_data[134] % 32) + 1,
      feedback  |-> voice_data[135] % 8,
      lfo_speed |-> voice_data[136],
      lfo_delay |-> voice_data[137],
      lfo_pmd   |-> voice_data[138],
      lfo_amd   |-> voice_data[139],
      lfo_sync  |-> voice_data[140] % 2,
      lfo_wave  |-> (voice_data[140] \div 2) % 8,
      lfo_pitch_mod_sens |-> (voice_data[140] \div 16) % 8,
      pitch_env_rates  |-> [i \in 0..3 |-> voice_data[126 + i]],
      pitch_env_levels |-> [i \in 0..3 |-> voice_data[130 + i]],
      transpose |-> (voice_data[141] % 64) - 24,
      poly_mono |-> 0,
      pitch_bend_range |-> 0,
      portamento_mode  |-> 0,
      portamento_gliss |-> 0,
      portamento_time  |-> 0 ]

\* A decoder that clears the name and the algorithm of *patch before it
\* tests the header.
ClearThenCheck(sysex, patch) ==
    IF Refused(sysex)
      THEN [ok |-> FALSE,
            patch |-> [patch EXCEPT !.name = <<>>, !.algorithm = 0]]
    ELSE [ok |-> TRUE, patch |-> DecodedPatch(sysex.voice_data)]

\* dx7_sysex_to_patch: the return value and *patch, which is left as it was
\* when the header or the checksum is refused and is cleared before it is
\* filled otherwise.
dx7_sysex_to_patch(sysex, patch) ==
    IF Refused(sysex) THEN [ok |-> FALSE, patch |-> patch]
    ELSE [ok |-> TRUE, patch |-> DecodedPatch(sysex.voice_data)]

\* ---------------------------------------------------------------- SpecCodec
\* The codec called on in-range patches and on voice dumps: a patch is
\* encoded and the dump decoded again, a dump is decoded and the patch
\* encoded again.

MaxCodecCalls == 2

\* A dx7_operator_t with every field at the bottom of its range (top = 0) or
\* at the top (top = 99), or in between.
CodecOperator(freq_ratio, detune, top) ==
    [ freq_ratio   |-> freq_ratio,
      detune       |-> detune,
      env_rates    |-> Arr(<<top, top \div 2, top \div 3, top \div 4>>),
      env_levels   |-> Arr(<<top, top \div 2, top \div 4, 0>>),
      output_level |-> top,
      key_vel_sens |-> Min(top, 7),
      key_level_scale_break_point |-> top,
      key_level_scale_left_depth  |-> top,
      key_level_scale_right_depth |-> top \div 2,
      key_level_scale_left_curve  |-> Min(top, 3),
      key_level_scale_right_curve |-> Min(top, 2),
      key_rate_scaling |-> Min(top, 7),
      osc_sync     |-> Min(top, 1) ]

\* A dx7_patch_t: operators[5] has the given ratio and detune, operators[k]
\* below it the ratio k + 1; the voice parameters follow voice_mode.
CodecPatch(name, freq_ratio, detune, top, voice_mode) ==
    [ name      |-> name,
      operators |-> PerOperator(LAMBDA k :
          IF k = 6 THEN CodecOperator(freq_ratio, detune, top)
          ELSE CodecOperator(Hundredths(100 * k), 0, top)),
      algorithm |-> IF top = 0 THEN 1 ELSE Min(top, 32),
      feedback  |-> Min(top, 7),
      lfo_speed |-> top,
      lfo_delay |-> top \div 2,
      lfo_pmd   |-> top \div 3,
      lfo_amd   |-> top \div 4,
      lfo_sync  |-> Min(top, 1),
      lfo_wave  |-> Min(top, 5),
      lfo_pitch_mod_sens |-> Min(top, 7),
      pitch_env_rates  |-> Arr(<<top, top \div 2, top \div 3, top \div 4>>),
      pitch_env_levels |-> Arr(<<Min(top, 50), 25, 0, Min(top, 50)>>),
      transpose |-> IF top = 0 THEN -24 ELSE Min(top, 24),
      poly_mono |-> voice_mode,
      pitch_bend_range |-> 12 * voice_mode,
      portamento_mode  |-> voice_mode,
      portamento_gliss |-> voice_mode,
      portamento_time  |-> 99 * voice_mode ]

\* "", "TEST", "A B " and "TENLETTERS".
Names ==
    { <<>>, <<84, 69, 83, 84>>, <<65, 32, 66, 32>>,
      <<84, 69, 78, 76, 69, 84, 84, 69, 82, 83>> }
\* 0.50, 0.75, 0.99, 1.00, 1.50 and 31.99.
Ratios == {Hundredths(h) : h \in {50, 75, 99, 100, 150, 3199}}
Detunes == {-7, 0, 7}
Tops == {0, 99}
VoiceModes == {0, 1}
\* The channels of the encoder, and one it refuses.
Channels == {0, 15, 16}

CodecPatches ==
    { CodecPatch(name, freq_ratio, detune, top, voice_mode) :
        name \in Names, freq_ratio \in Ratios, detune \in Detunes,
        top \in Tops, voice_mode \in VoiceModes }

\* The voice data of a dump that the encoder made.
BaseVoiceData == VoiceData(CodecPatch(<<84, 69, 83, 84>>, RatioOne, 0, 50, 0))
\* Bytes of the block of operators[5] and of the global parameters, and the
\* values given to them.
Offsets == {11, 13, 15, 16, 17, 18, 134, 135, 141, 142, 152}
Bytes == {0, 1, 2, 3, 64, 99}
\* The coarse and fine values the voice data of VoiceDataArrays hold.
CoarseDomain == {0, 1, 17}
FineDomain == Bytes

VoiceDataArrays ==
    { [BaseVoiceData EXCEPT ![i] = v, ![j] = w] :
        i \in Offsets, j \in Offsets, v \in Bytes, w \in Bytes }

\* memset(&patch, 0, sizeof patch) and memset(&sysex, 0, sizeof sysex): the
\* buffers of the caller.
ZeroCodecPatch == CodecPatch(<<>>, 0, 0, 0, 0)
ZeroSysex == [Sysex(0, [i \in 0..154 |-> 0], 0) EXCEPT
                !.start_sysex = 0, !.manufacturer = 0, !.byte_count_msb = 0,
                !.byte_count_lsb = 0, !.end_sysex = 0]

\* The caller holds a patch to encode on a channel.
GivenPatch(patch, channel) ==
    [ given |-> "patch", source_patch |-> patch, source_sysex |-> ZeroSysex,
      patch |-> patch, has_patch |-> TRUE,
      sysex |-> ZeroSysex, has_sysex |-> FALSE,
      channel |-> channel, calls |-> <<>> ]

\* The caller holds a dump to decode into a buffer that holds patch; what
\* is decoded is encoded on channel 0.
GivenSysex(sysex, patch) ==
    [ given |-> "sysex", source_patch |-> patch,
      source_sysex |-> sysex,
      patch |-> patch, has_patch |-> FALSE,
      sysex |-> sysex, has_sysex |-> TRUE,
      channel |-> 0, calls |-> <<>> ]

\* What the buffer of the decoder holds before the call: zeroes, or the
\* patch "TEST" loaded before.
Destinations ==
    {ZeroCodecPatch, CodecPatch(<<84, 69, 83, 84>>, Hundredths(150), 7, 99, 1)}

\* Voice data with one byte at 127, the largest data byte of a SysEx
\* message: an envelope rate and level, a scaling depth, the output level and
\* the detune byte of operators[5], the LFO speed, the LFO byte and the
\* transpose byte.
WideOffsets == {0, 4, 9, 14, 17, 136, 140, 141}
WideVoiceDataArrays == {[BaseVoiceData EXCEPT ![i] = 127] : i \in WideOffsets}

\* The base dump as the encoder made it.
BaseDump == Sysex(0, BaseVoiceData, calculate_dx7_checksum(BaseVoiceData, 155))

\* The base dump with one wrong byte around its voice data: the start byte,
\* the manufacturer, the format, either byte of the byte count, the checksum
\* or the end byte.
BadDumps ==
    { [BaseDump EXCEPT !.start_sysex = MIDI_END_OF_EXCLUSIVE],
      [BaseDump EXCEPT !.manufacturer = 65],
      [BaseDump EXCEPT !.format = 9],
      [BaseDump EXCEPT !.byte_count_msb = 32],
      [BaseDump EXCEPT !.byte_count_lsb = 0],
      [BaseDump EXCEPT !.checksum = (@ + 1) % 128],
      [BaseDump EXCEPT !.end_sysex = 0] }

\* Dumps with the checksum of their voice data, and the refused ones.
Dumps ==
    { Sysex(0, voice_data, calculate_dx7_checksum(voice_data, 155)) :
        voice_data \in VoiceDataArrays \cup WideVoiceDataArrays }
    \cup BadDumps

InitCodec ==
    /\ g_midi_system = ZeroSystem
    /\ clock = 0
    /\ last_call = CallOf("main", <<>>, 0)
    /\ dispatched = <<>>
    /\ allocated = <<>>
    /\ mixed = {}
    /\ output_buffer = <<>>
    /\ threads = ThreadsAtRest("stopped", "stopped")
    /\ render = NoRender
    /\ codec \in {GivenPatch(patch, channel) :
                     patch \in CodecPatches, channel \in Channels}
                 \cup {GivenSysex(sysex, patch) :
                          sysex \in Dumps, patch \in Destinations}

\* The name of the codec call made last, "" before the first.
LastCodecCall ==
    IF codec.calls = <<>> THEN ""
    ELSE codec.calls[Len(codec.calls)].name

\* dx7_patch_to_sysex(&patch, &sysex, channel)
PatchToSysex ==
    LET r == dx7_patch_to_sysex(codec.patch, codec.sysex, codec.channel)
    IN  /\ codec.has_patch
        /\ Len(codec.calls) < MaxCodecCalls
        /\ LastCodecCall # "dx7_patch_to_sysex"
        /\ codec' = [codec EXCEPT
                       !.sysex = r.sysex,
                       !.has_sysex = @ \/ r.ok,
                       !.calls = Append(@, [name |-> "dx7_patch_to_sysex",
                                            ok |-> r.ok])]
        /\ UNCHANGED <<g_midi_system, clock, last_call, dispatched, allocated,
                       mixed, output_buffer, threads, render>>

\* dx7_sysex_to_patch(&sysex, &patch)
SysexToPatch ==
    LET r == dx7_sysex_to_patch(codec.sysex, codec.patch)
    IN  /\ codec.has_sysex
        /\ Len(codec.calls) < MaxCodecCalls
        /\ LastCodecCall # "dx7_sysex_to_patch"
        /\ codec' = [codec EXCEPT
                       !.patch = r.patch,
                       !.has_patch = @ \/ r.ok,
                       !.calls = Append(@, [name |-> "dx7_sysex_to_patch",
                                            ok |-> r.ok])]
        /\ UNCHANGED <<g_midi_system, clock, last_call, dispatched, allocated,
                       mixed, output_buffer, threads, render>>

NextCodec == PatchToSysex \/ SysexToPatch

SpecCodec == InitCodec /\ [][NextCodec]_vars

\* ---------------------------------------------------------------- SpecVoice
\* One key, sample by sample: a playing system whose bender and wheel are
\* up, or whose pedal is down, or neither, before the key is played; blocks
\* of one frame; the key released once, and the pedal if it is down, at any
\* sample; and main rendering one note to a file with the engine never
\* initialised.

MaxVoiceSamples == 24

\* Instant stages at frequency ratio 4.00, with feedback and the LFO at full
\* speed: the sustain level is 0 and the release level 99.
SwellPatch ==
    Voiced(Patch(Tuned(Operator(<<99, 99, 99, 99>>, <<99, 50, 0, 99>>, 99, 0),
                       Hundredths(400), 0)),
           1, 7, 99)
\* Stages that take a few samples each, at frequency ratio 1.00 detuned, all
\* operators carriers.
StagedPatch ==
    Voiced(Patch(Tuned(Operator(<<98, 98, 98, 98>>, <<99, 90, 80, 0>>, 99, 0),
                       RatioOne, 7)),
           25, 3, 35)

VoicePatches == {SwellPatch, StagedPatch}
VoiceNotes == {60, 127}

\* main: init_operators(&voice, &patch, midi_note, vel_normalized) before the
\* synthesis loop of target_samples samples.
StartRender(patch, midi_note, velocity, target_samples) ==
    [ rendering      |-> TRUE,
      patch          |-> patch,
      voice          |-> init_operators(patch, midi_note, velocity),
      i              |-> 0,
      target_samples |-> target_samples ]

\* One pass of the synthesis loop of main: process_operators(&voice, &patch).
RenderSample ==
    /\ render.rendering
    /\ render.i < render.target_samples
    /\ render' = [render EXCEPT
                    !.voice = process_operators(g_midi_system, @,
                                                render.patch).voice,
                    !.i = @ + 1]
    /\ UNCHANGED <<g_midi_system, clock, last_call, dispatched, allocated,
                   mixed, output_buffer, threads, codec>>

RECURSIVE After(_, _)
\* What the MIDI callback makes of a playing system when the packets arrive.
After(g, packets) ==
    IF packets = <<>> THEN g
    ELSE After(midi_input_callback(Call(g, 0), Head(packets)).g, Tail(packets))

\* Nothing; the wheel and the bender up; the pedal down.
VoiceControllers ==
    { <<>>,
      <<ControlChange(0, MIDI_CC_MODWHEEL, 127), PitchBend(0, 127, 127)>>,
      <<ControlChange(0, MIDI_CC_SUSTAIN_PEDAL, 127)>> }
VoiceKeys == {NoteOn(0, note, 100) : note \in VoiceNotes}

\* A voice sounds the note and its key is down: it is neither held by the
\* pedal nor released.
KeyDown(note) ==
    \E i \in 0..(MAX_VOICES - 1) :
       LET voice == g_midi_system.voices[i]
       IN  /\ voice.active /\ voice.midi_note = note /\ ~voice.sustain_held
           /\ voice.synth_voice.operators[1].env.stage # ENV_RELEASE

InitVoice ==
    /\ clock = 0
    /\ dispatched = <<>>
    /\ allocated = <<>>
    /\ mixed = {}
    /\ output_buffer = <<>>
    /\ codec = NoCodecCall
    /\ \/ /\ g_midi_system \in {After(Playing(patch), packets) :
                                  patch \in VoicePatches,
                                  packets \in VoiceControllers}
          /\ last_call = CallOf("midi_input_callback", <<>>, 0)
          /\ threads = ThreadsAtRest("running", "running")
          /\ render = NoRender
       \/ /\ g_midi_system = ZeroSystem
          /\ last_call = CallOf("main", <<>>, 0)
          /\ threads = ThreadsAtRest("stopped", "stopped")
          /\ render \in {StartRender(patch, midi_note, 100, MaxVoiceSamples) :
                           patch \in VoicePatches, midi_note \in VoiceNotes}

NextVoice ==
    \/ \E data \in VoiceKeys :
          g_midi_system.notes_played = 0 /\ MidiInput(data, clock)
    \/ \E note \in VoiceNotes :
          KeyDown(note) /\ MidiInput(NoteOff(0, note), clock)
    \/ /\ g_midi_system.controllers.sustain_pedal
       /\ MidiInput(ControlChange(0, MIDI_CC_SUSTAIN_PEDAL, 0), clock)
    \/ AudioBlock(1) /\ Sampled(MaxVoiceSamples)
    \/ RenderSample

SpecVoice == InitVoice /\ [][NextVoice]_vars

\* ---------------------------------------------------------------- SpecSameNote
\* A playing system on which one key is struck several times before it is
\* let go as many times: the Note Ons and then the Note Offs arrive in one
\* packet, each kind under one status byte; single keys and the pedal come
\* in between the bursts.

MaxSameNotes == 3
MaxBurstNotes == 4

RECURSIVE Repeated(_, _)
\* The data bytes of k messages alike.
Repeated(bytes, k) == IF k = 0 THEN <<>> ELSE bytes \o Repeated(bytes, k - 1)

\* k Note Ons of the note followed by k Note Offs of the note, channel 1.
SameNoteBurst(note, velocity, k) ==
    <<MIDI_NOTE_ON>> \o Repeated(<<note, velocity>>, k)
    \o <<MIDI_NOTE_OFF>> \o Repeated(<<note, 0>>, k)

SameNotePackets ==
    { SameNoteBurst(note, 100, k) : note \in {60, 62}, k \in 1..MaxSameNotes }
    \cup { NoteOn(0, 60, 100), NoteOff(0, 60),
           ControlChange(0, MIDI_CC_SUSTAIN_PEDAL, 127),
           ControlChange(0, MIDI_CC_SUSTAIN_PEDAL, 0) }

InitSameNote == InitPlaying

NextSameNote ==
    \E data \in SameNotePackets :
       MidiInput(data, clock + 1) /\ Within(MaxBurstNotes, MaxBurstNotes, 0)

SpecSameNote == InitSameNote /\ [][NextSameNote]_vars

\* ---------------------------------------------------------------- SpecAttack
\* A playing system whose patch has a slow, a medium or an instant attack:
\* keys are struck and blocks of several lengths are generated.

MaxAttackNotes == 2
MaxAttackSamples == 26

\* Attack rates 0 (30 s), 50 (0.15 s) and 99, full sustain level.
AttackPatches ==
    { Patch(Operator(<<0, 99, 99, 99>>, <<99, 99, 99, 0>>, 99, 0)),
      Patch(Operator(<<50, 99, 99, 99>>, <<99, 99, 99, 0>>, 99, 0)),
      OrganPatch }

AttackFrameCounts == {1, 24}

InitAttack ==
    /\ g_midi_system \in {Playing(patch) : patch \in AttackPatches}
    /\ clock = 0
    /\ last_call = CallOf("midi_input_start_play_mode", <<>>, 0)
    /\ dispatched = <<>>
    /\ allocated = <<>>
    /\ mixed = {}
    /\ output_buffer = <<>>
    /\ threads = ThreadsAtRest("running", "running")
    /\ codec = NoCodecCall
    /\ render = NoRender

NextAttack ==
    \/ \E note \in {60, 62} :
          MidiInput(NoteOn(0, note, 100), clock + 1)
          /\ Within(MaxAttackNotes, MaxAttackNotes, 0)
    \/ \E frame_count \in AttackFrameCounts :
          AudioBlock(frame_count) /\ Sampled(MaxAttackSamples)

SpecAttack == InitAttack /\ [][NextAttack]_vars

\* ---------------------------------------------------------------- SpecEnvelope
\* One operator envelope from note-on, sample after sample, with no release:
\* init_operators gives it its rate_scale and init_envelope its start, and
\* every sample of the voice calls update_envelope on it.

\* Operators at rates 99 and 98: the sustain level below and above the Decay1
\* level, the Decay1 level above the attack level, and keyboard rate scaling
\* 0, 3 and 7.
EnvelopeOperators ==
    { Operator(<<99, 99, 99, 99>>, <<99, 50, 0, 0>>, 99, 0),
      Operator(<<99, 99, 99, 99>>, <<99, 50, 80, 0>>, 99, 0),
      Operator(<<98, 98, 98, 98>>, <<99, 90, 80, 0>>, 99, 7),
      Operator(<<98, 98, 98, 98>>, <<50, 99, 20, 0>>, 99, 3) }

EnvelopeNotes == {36, 48, 60, 127}

\* The envelope of an operator as init_operators starts it for a note.
StartEnvelope(op, midi_note) ==
    LET rate_scale == (midi_note - 60) * op.key_rate_scaling
    IN  [ rendering  |-> FALSE,
          op         |-> op,
          midi_note  |-> midi_note,
          rate_scale |-> rate_scale,
          env        |-> init_envelope(op, rate_scale) ]

InitEnvelope ==
    /\ g_midi_system = ZeroSystem
    /\ clock = 0
    /\ last_call = CallOf("main", <<>>, 0)
    /\ dispatched = <<>>
    /\ allocated = <<>>
    /\ mixed = {}
    /\ output_buffer = <<>>
    /\ threads = ThreadsAtRest("stopped", "stopped")
    /\ codec = NoCodecCall
    /\ render \in {StartEnvelope(op, midi_note) :
                     op \in EnvelopeOperators, midi_note \in EnvelopeNotes}

\* One sample of the voice, as far as this envelope goes: update_envelope.
EnvelopeSample ==
    /\ render' = [render EXCEPT
                    !.env = update_envelope(@, render.op, render.rate_scale)]
    /\ UNCHANGED <<g_midi_system, clock, last_call, dispatched, allocated,
                   mixed, output_buffer, threads, codec>>

NextEnvelope == EnvelopeSample

\* The voice is sampled for as long as it sounds.
SpecEnvelope ==
    InitEnvelope /\ [][NextEnvelope]_vars /\ WF_vars(EnvelopeSample)

\* ---------------------------------------------------------------- SpecRelease
\* One voice whose six operators are alike, from note-on to the end of its
\* life, as far as its envelopes go: blocks of one frame sample it while it
\* is active and mark it inactive when its envelopes have finished; the key
\* is let go at some sample, with the pedal off.

\* Operators at rates 99: the release level 0, below the sustain level, and
\* above it; and one with keyboard rate scaling 7.
ReleaseOperators ==
    { Operator(<<99, 99, 99, 99>>, <<99, 99, 99, 0>>, 99, 0),
      Operator(<<99, 99, 99, 99>>, <<99, 99, 80, 50>>, 99, 0),
      Operator(<<99, 99, 99, 99>>, <<99, 50, 20, 99>>, 99, 0),
      Operator(<<99, 99, 99, 99>>, <<99, 99, 99, 0>>, 99, 7) }

InitRelease ==
    /\ g_midi_system = ZeroSystem
    /\ clock = 0
    /\ last_call = CallOf("main", <<>>, 0)
    /\ dispatched = <<>>
    /\ allocated = <<>>
    /\ mixed = {}
    /\ output_buffer = <<>>
    /\ threads = ThreadsAtRest("stopped", "stopped")
    /\ codec = NoCodecCall
    /\ render \in {StartEnvelope(op, midi_note)
                     @@ [active |-> TRUE, released |-> FALSE] :
                     op \in ReleaseOperators, midi_note \in EnvelopeNotes}

\* A block of one frame for the voice: update_envelope, then the test of
\* voice_finished.
VoiceSample ==
    LET env == update_envelope(render.env, render.op, render.rate_scale)
    IN  /\ render.active
        /\ render' = [render EXCEPT !.env = env,
                                    !.active = ~EnvelopeFinished(env)]
        /\ UNCHANGED <<g_midi_system, clock, last_call, dispatched, allocated,
                       mixed, output_buffer, threads, codec>>

\* The Note Off of the voice's key: find_voice finds the voice if it is
\* active, and handle_note_off calls trigger_release.
KeyReleased ==
    /\ render.active
    /\ ~render.released
    /\ render' = [render EXCEPT
                    !.env = trigger_release(@, render.op, render.rate_scale),
                    !.released = TRUE]
    /\ UNCHANGED <<g_midi_system, clock, last_call, dispatched, allocated,
                   mixed, output_buffer, threads, codec>>

NextRelease == VoiceSample \/ KeyReleased

\* The audio callback keeps asking for blocks.
SpecRelease ==
    InitRelease /\ [][NextRelease]_vars /\ WF_vars(VoiceSample)

\* ---------------------------------------------------------------- properties

Active(g) == {i \in Slots : g.voices[i].active}

\* C1: when allocate_voice is called while at least one slot is inactive, it
\* returns the lowest-index inactive slot and that slot then holds the new
\* active voice; on an empty pool it returns 0.  (Spec delivers one message
\* per packet, so a packet calls allocate_voice at most once.)
C1_FirstInactiveSlot ==
    [][ (Len(allocated') = 1 /\ Active(g_midi_system) # Slots)
          => LET slot == allocated'[1]
             IN  /\ slot \in Slots \ Active(g_midi_system)
                 /\ \A j \in 0..(slot - 1) : j \in Active(g_midi_system)
                 /\ (Active(g_midi_system) = {} => slot = 0)
                 /\ g_midi_system'.voices[slot].active
                 /\ g_midi_system'.voices[slot].midi_note = dispatched'[1][2]
                 /\ g_midi_system'.voice_count =
                       g_midi_system.voice_count + 1 ]_vars

\* Slot 0 is allocated again while slot 1, allocated after it, still sounds.
C1_Witness ==
    /\ allocated = <<0>>
    /\ g_midi_system.voices[1].active
    /\ g_midi_system.voice_count = 2

\* C6: an audio block mixes in only voices that were active when it was
\* generated and leaves the inactive ones as they were; with no active voice,
\* or with the system not active or not in play mode, every frame of the
\* block is 0.
C6_InactiveNotMixed ==
    [][ last_call'.op = "generate_audio_block"
          => /\ mixed' \subseteq Active(g_midi_system)
             /\ \A i \in Slots \ Active(g_midi_system) :
                   g_midi_system'.voices[i] = g_midi_system.voices[i]
             /\ Len(output_buffer') = last_call'.frame_count
             /\ (\/ Active(g_midi_system) = {}
                 \/ ~g_midi_system.active
                 \/ ~g_midi_system.play_mode)
                  => /\ mixed' = {}
                     /\ \A f \in 1..Len(output_buffer') : output_buffer'[f] = 0
                     /\ g_midi_system' = g_midi_system ]_vars

\* A block mixes slot 0 while slot 1 is inactive with its envelopes left at
\* full level by the end of an earlier play mode.
C6_Witness ==
    /\ last_call.op = "generate_audio_block"
    /\ mixed = {0}
    /\ \E f \in 1..Len(output_buffer) : output_buffer[f] # 0
    /\ ~g_midi_system.voices[1].active
    /\ g_midi_system.voices[1].synth_voice.operators[1].env.level = LevelOne

\* C2: allocate_voice always returns a slot in 0..15.  Called for a packet's
\* one Note On with all 16 slots active, it returns the slot whose
\* note_on_time is smallest (the first of them when several are equal) and
\* re-initializes that slot with the new note, all envelopes back at the
\* start of Attack; voice_steals grows by one and the other slots are left
\* alone.  When the 16 note_on_times were strictly increasing with the slot,
\* the slot is 0.
C2_StealOldest ==
    [][ /\ \A k \in 1..Len(allocated') : allocated'[k] \in Slots
        /\ (Len(allocated') = 1 /\ Active(g_midi_system) = Slots)
              => LET slot == allocated'[1]
                     old == g_midi_system.voices
                     new == g_midi_system'.voices[slot]
                 IN  /\ \A i \in Slots :
                           old[slot].note_on_time <= old[i].note_on_time
                     /\ \A i \in 0..(slot - 1) :
                           old[slot].note_on_time < old[i].note_on_time
                     /\ (\A i \in 1..(MAX_VOICES - 1) :
                            old[i - 1].note_on_time < old[i].note_on_time)
                          => slot = 0
                     /\ new.active /\ ~new.sustain_held
                     /\ new.midi_note = dispatched'[1][2]
                     /\ new.velocity = dispatched'[1][3]
                     /\ new.note_on_time = clock'
                     /\ \A op \in 1..MAX_OPERATORS :
                           /\ new.synth_voice.operators[op].env.stage = ENV_ATTACK
                           /\ new.synth_voice.operators[op].env.level = 0
                     /\ \A i \in Slots \ {slot} :
                           g_midi_system'.voices[i] = old[i]
                     /\ g_midi_system'.voice_steals =
                           g_midi_system.voice_steals + 1
                     /\ g_midi_system'.voice_count = MAX_VOICES ]_vars

\* Sixteen keys, one per microsecond, fill the pool; the seventeenth (key 64,
\* the first being 48) takes slot 0.
C2_Witness ==
    /\ allocated = <<0>>
    /\ g_midi_system.notes_played = 17
    /\ g_midi_system.voice_steals = 1
    /\ g_midi_system.voices[0].midi_note = 64
    /\ g_midi_system.voices[0].note_on_time = 17
    /\ \A i \in 1..(MAX_VOICES - 1) :
          /\ g_midi_system.voices[i].note_on_time = i + 1
          /\ g_midi_system.voices[i].midi_note = 48 + i

\* The one message the last packet had dispatched, when it is a message of
\* this type on the current channel.
Handled(msg_type, g, msgs) ==
    /\ Len(msgs) = 1
    /\ msgs[1][1] = msg_type + g.current_channel

Stages(voice) ==
    [op \in 1..MAX_OPERATORS |-> voice.synth_voice.operators[op].env.stage]

InRelease(voice) ==
    \A op \in 1..MAX_OPERATORS : Stages(voice)[op] = ENV_RELEASE

\* The active voices a Note Off for this note and channel matches.
Matching(g, note, channel) ==
    {i \in Active(g) : /\ g.voices[i].midi_note = note
                       /\ g.voices[i].channel = channel}

\* C3: a Note Off that matches an active voice marks a matching voice
\* sustain_held and changes none of its envelope stages when the sustain
\* pedal is held, and otherwise puts all six envelopes of a matching voice in
\* Release; and when the Note Off follows immediately on the Note On of its
\* note, with the pedal off, every envelope of the voice that Note On
\* allocated is in Release.
C3_NoteOffReleases ==
    [][ Handled(MIDI_NOTE_OFF, g_midi_system, dispatched')
          => LET note == dispatched'[1][2]
                 channel == g_midi_system.current_channel
                 pedal == g_midi_system.controllers.sustain_pedal
                 matching == Matching(g_midi_system, note, channel)
             IN  /\ (matching # {} /\ pedal)
                       => \E v \in matching :
                             /\ g_midi_system'.voices[v].sustain_held
                             /\ Stages(g_midi_system'.voices[v])
                                   = Stages(g_midi_system.voices[v])
                 /\ (matching # {} /\ ~pedal)
                       => \E v \in matching : InRelease(g_midi_system'.voices[v])
                 /\ (/\ ~pedal
                     /\ Handled(MIDI_NOTE_ON, g_midi_system, dispatched)
                     /\ dispatched[1][2] = note
                     /\ Len(allocated) = 1)
                       => InRelease(g_midi_system'.voices[allocated[1]]) ]_vars

\* C4: when a Control Change 64 with a value below 64 arrives while the
\* sustain pedal is on, every voice that is active and sustain_held is put in
\* Release on all six envelopes, at the level it had, with its flag cleared,
\* and every other voice is left exactly as it was; the pedal is then off.
C4_SustainOffSweep ==
    [][ (/\ Handled(MIDI_CONTROL_CHANGE, g_midi_system, dispatched')
         /\ dispatched'[1][2] = MIDI_CC_SUSTAIN_PEDAL
         /\ dispatched'[1][3] < 64
         /\ g_midi_system.controllers.sustain_pedal)
          => /\ ~g_midi_system'.controllers.sustain_pedal
             /\ \A i \in Slots :
                   LET old == g_midi_system.voices[i]
                       new == g_midi_system'.voices[i]
                   IN  IF old.active /\ old.sustain_held
                         THEN /\ InRelease(new)
                              /\ ~new.sustain_held
                              /\ new.active
                              /\ \A op \in 1..MAX_OPERATORS :
                                    new.synth_voice.operators[op].env.level
                                      = old.synth_voice.operators[op].env.level
                       ELSE new = old ]_vars

\* The pedal goes off with key 60 held by it in slot 0 and key 62 still down
\* in slot 1: slot 0 is released, slot 1 is still in Attack.
C4_Witness ==
    /\ last_call.data = ControlChange(0, MIDI_CC_SUSTAIN_PEDAL, 0)
    /\ dispatched # <<>>
    /\ g_midi_system.voices[0].active
    /\ g_midi_system.voices[0].midi_note = 60
    /\ InRelease(g_midi_system.voices[0])
    /\ g_midi_system.voices[1].active
    /\ g_midi_system.voices[1].midi_note = 62
    /\ Stages(g_midi_system.voices[1])[1] = ENV_ATTACK

\* The calls that reach release_all_voices: Control Change 120 or 123 on the
\* current channel, the end of play mode, and shutdown.
ReleaseAllReached ==
    \/ /\ Handled(MIDI_CONTROL_CHANGE, g_midi_system, dispatched')
       /\ dispatched'[1][2] \in {MIDI_CC_ALL_SOUND_OFF, MIDI_CC_ALL_NOTES_OFF}
    \/ /\ last_call'.op = "midi_input_stop_play_mode"
       /\ g_midi_system.play_mode
    \/ /\ last_call'.op = "midi_input_shutdown"
       /\ g_midi_system.active

\* C5: after a call that reaches release_all_voices every one of the 16 slots
\* is inactive and not sustain_held, and voice_count is 0.
C5_ReleaseAll ==
    [][ ReleaseAllReached
          => /\ \A i \in Slots : /\ ~g_midi_system'.voices[i].active
                                 /\ ~g_midi_system'.voices[i].sustain_held
             /\ g_midi_system'.voice_count = 0 ]_vars

\* All Notes Off has just silenced two voices; slot 0 still holds key 60.
C5_Witness ==
    /\ last_call.data = ControlChange(0, MIDI_CC_ALL_NOTES_OFF, 0)
    /\ dispatched # <<>>
    /\ g_midi_system.notes_played = 2
    /\ g_midi_system.voices[0].midi_note = 60
    /\ g_midi_system.voices[1].midi_note = 62
    /\ g_midi_system.voice_count = 0

\* A packet that midi_input_callback hands to the parser.
Parsed(data) ==
    /\ last_call'.op = "midi_input_callback"
    /\ last_call'.data = data
    /\ g_midi_system.active
    /\ g_midi_system.play_mode

\* A packet that starts with a channel status byte and holds nothing but
\* channel status bytes and data bytes.
ChannelStream(data) ==
    /\ data # <<>>
    /\ data[1] >= 128
    /\ \A i \in 1..Len(data) : data[i] < MIDI_SYSTEM_EXCLUSIVE

\* The messages running status makes of such a packet: each status byte
\* starts afresh, and each group of the needed data bytes after it is one
\* message with that status.
RECURSIVE RunningStatus(_, _, _, _)
RunningStatus(data, i, status, pending) ==
    IF i > Len(data) THEN <<>>
    ELSE IF data[i] >= 128 THEN RunningStatus(data, i + 1, data[i], <<>>)
    ELSE IF Len(pending) + 1 < DataBytesNeeded(status)
      THEN RunningStatus(data, i + 1, status, Append(pending, data[i]))
    ELSE LET group == Append(pending, data[i])
         IN  << <<status, group[1], IF Len(group) > 1 THEN group[2] ELSE 0>> >>
               \o RunningStatus(data, i + 1, status, <<>>)

\* C7: of a packet that starts with a channel status byte, every group of
\* the needed data bytes is dispatched as a message with the last status
\* byte before it, in order and nothing else; so
\* 0x90 0x3C 0x40 0x3E 0x40 0x80 0x3C 0x00 gives Note On 60 velocity 64,
\* Note On 62 velocity 64, Note Off 60.
C7_RunningStatus ==
    [][ \A data \in ParserPackets :
          (Parsed(data) /\ ChannelStream(data))
            => /\ dispatched' = RunningStatus(data, 1, 0, <<>>)
               /\ data = RunningStatusPacket
                    => dispatched' = << <<144, 60, 64>>, <<144, 62, 64>>,
                                        <<128, 60, 0>> >> ]_vars

\* A complete channel message as the dispatcher receives it.
Message(bytes) ==
    <<bytes[1], bytes[2], IF Len(bytes) > 2 THEN bytes[3] ELSE 0>>

\* C8: fed the concatenation of two valid channel messages, the parser
\* dispatches the first and then the second, and data_bytes_received is 0
\* afterwards.
C8_TwoMessages ==
    [][ \A first, second \in ChannelMessages :
          Parsed(first \o second)
            => /\ dispatched' = <<Message(first), Message(second)>>
               /\ g_midi_system'.parser.data_bytes_received = 0 ]_vars

\* C9: a packet of one data byte that arrives outside SysEx while
\* running_status is 0 adds exactly one to midi_errors, dispatches nothing
\* and changes nothing else of the system.
C9_OrphanDataByte ==
    [][ \A data \in ParserPackets :
          (/\ Parsed(data)
           /\ Len(data) = 1
           /\ data[1] < 128
           /\ ~g_midi_system.parser.in_sysex
           /\ g_midi_system.parser.running_status = 0)
            => /\ g_midi_system' = [g_midi_system EXCEPT !.midi_errors = @ + 1]
               /\ dispatched' = <<>> ]_vars

\* A data byte has arrived after a SysEx that was opened and closed, before
\* any status byte: one error, nothing dispatched.
C9_Witness ==
    /\ last_call.data = <<60>>
    /\ dispatched = <<>>
    /\ g_midi_system.midi_errors = 1
    /\ g_midi_system.parser.running_status = 0
    /\ ~g_midi_system.parser.in_sysex
    /\ g_midi_system.parser.sysex_length = 1

\* A packet whose first byte is a data byte that arrives in SysEx with the
\* accumulator full.
Overflowing(data) ==
    /\ Parsed(data)
    /\ data[1] < 128
    /\ g_midi_system.parser.in_sysex
    /\ g_midi_system.parser.sysex_length = SYSEX_BUFFER_SIZE

\* C10 as stated: a SysEx data byte that arrives when the 512-byte
\* accumulator is full is dropped, and midi_errors goes up by one.
C10_OverflowCounted ==
    [][ \A data \in SysexPackets :
          (Overflowing(data) /\ Len(data) = 1)
            => /\ g_midi_system'.parser = g_midi_system.parser
               /\ g_midi_system'.midi_errors = g_midi_system.midi_errors + 1
      ]_vars

\* C10, amended: a SysEx data byte that arrives when the 512-byte
\* accumulator is full is dropped silently, the system and midi_errors
\* staying as they were; parsing goes on, so that a 0xF7 and a Note On
\* behind the dropped byte end the SysEx and are dispatched.
C10_OverflowDropped ==
    [][ \A data \in SysexPackets :
          Overflowing(data)
            => IF Len(data) = 1
                 THEN g_midi_system' = g_midi_system /\ dispatched' = <<>>
               ELSE /\ g_midi_system'.parser.sysex_buffer
                         = g_midi_system.parser.sysex_buffer
                    /\ g_midi_system'.parser.sysex_length = SYSEX_BUFFER_SIZE
                    /\ g_midi_system'.midi_errors = g_midi_system.midi_errors
                    /\ ~g_midi_system'.parser.in_sysex
                    /\ dispatched' = << NoteOn(0, 60, 100) >>
                    /\ allocated' # <<>> ]_vars

\* The 513th byte of the dump, 0, has arrived: the accumulator still ends
\* with the 512th, 127.
C10_Witness ==
    /\ last_call.data = <<0>>
    /\ g_midi_system.parser.in_sysex
    /\ g_midi_system.parser.sysex_length = SYSEX_BUFFER_SIZE
    /\ g_midi_system.parser.sysex_buffer[SYSEX_BUFFER_SIZE] = 127

\* What a message leaves alone when it changes no voice slot, no controller
\* value and no statistic.
Untouched ==
    /\ g_midi_system'.voices = g_midi_system.voices
    /\ g_midi_system'.voice_count = g_midi_system.voice_count
    /\ g_midi_system'.controllers = g_midi_system.controllers
    /\ g_midi_system'.notes_played = g_midi_system.notes_played
    /\ g_midi_system'.voice_steals = g_midi_system.voice_steals
    /\ g_midi_system'.midi_errors = g_midi_system.midi_errors

\* C11: a complete message whose channel nibble is not current_channel is
\* handed to the dispatcher and changes no voice slot, no controller value
\* and no statistic.
C11_OtherChannelIgnored ==
    [][ \A data \in ControllerPackets :
          (Parsed(data) /\ data[1] % 16 # g_midi_system.current_channel)
            => /\ dispatched' = <<data>>
               /\ allocated' = <<>>
               /\ Untouched ]_vars

\* All Notes Off on channel 2 has been dispatched while a key sounds on
\* channel 1 with the volume turned down: the voice still sounds.
C11_Witness ==
    /\ last_call.data = ControlChange(1, MIDI_CC_ALL_NOTES_OFF, 0)
    /\ dispatched = <<last_call.data>>
    /\ g_midi_system.voices[0].active
    /\ g_midi_system.voice_count = 1
    /\ g_midi_system.controllers.volume = midi_to_float(64)

\* C12: a Note On with velocity 0 leaves voices, controllers and statistics
\* exactly as a Note Off for the same note and channel would have left them;
\* it allocates no voice and does not count in notes_played.
C12_NoteOnVelocityZero ==
    [][ \A data \in ControllerPackets :
          (/\ Parsed(data)
           /\ (data[1] \div 16) * 16 = MIDI_NOTE_ON
           /\ data[3] = 0)
            => LET off == midi_input_callback(
                             Call(g_midi_system, clock),
                             NoteOff(data[1] % 16, data[2])).g
               IN  /\ g_midi_system'.voices = off.voices
                   /\ g_midi_system'.voice_count = off.voice_count
                   /\ g_midi_system'.controllers = off.controllers
                   /\ g_midi_system'.voice_steals = off.voice_steals
                   /\ g_midi_system'.midi_errors = off.midi_errors
                   /\ g_midi_system'.notes_played = g_midi_system.notes_played
                   /\ allocated' = <<>> ]_vars

\* Note On 60 with velocity 0 has arrived with the pedal held: the voice of
\* key 60 is sustain_held, and no second note was counted.
C12_Witness ==
    /\ last_call.data = NoteOn(0, 60, 0)
    /\ dispatched = <<last_call.data>>
    /\ allocated = <<>>
    /\ g_midi_system.notes_played = 1
    /\ g_midi_system.voices[0].active
    /\ g_midi_system.voices[0].sustain_held
    /\ g_midi_system.controllers.sustain_pedal

\* C13: after Control Change 121 on the current channel volume and
\* expression are 1, every other controller value is 0 or false, and no
\* voice slot has changed.
C13_ResetControllers ==
    [][ (/\ Handled(MIDI_CONTROL_CHANGE, g_midi_system, dispatched')
         /\ dispatched'[1][2] = MIDI_CC_ALL_CONTROLLERS_OFF)
          => LET c == g_midi_system'.controllers
             IN  /\ c.volume = CtlOne
                 /\ c.expression = CtlOne
                 /\ c.pitch_bend = 0 /\ c.mod_wheel = 0 /\ c.breath = 0
                 /\ c.foot = 0 /\ c.pan = 0
                 /\ ~c.sustain_pedal /\ ~c.portamento
                 /\ \A n \in 0..127 : c.controllers[n] = 0
                 /\ g_midi_system'.voices = g_midi_system.voices
                 /\ g_midi_system'.voice_count = g_midi_system.voice_count
      ]_vars

\* The reset has arrived with key 60 held by the pedal: the pedal is off,
\* volume is back at 1, and the voice is still active and sustain_held.
C13_Witness ==
    /\ last_call.data = ControlChange(0, MIDI_CC_ALL_CONTROLLERS_OFF, 0)
    /\ dispatched = <<last_call.data>>
    /\ g_midi_system.controllers.volume = CtlOne
    /\ ~g_midi_system.controllers.sustain_pedal
    /\ g_midi_system.voices[0].active
    /\ g_midi_system.voices[0].sustain_held

\* A step of the MIDI thread, of the audio thread.
MidiStep == threads'.midi_thread # threads.midi_thread
AudioStep == threads'.audio_thread # threads.audio_thread
\* The audio thread is inside the locked part of a block.
InBlock == threads.audio_thread.pc \in {"mix", "unlock"}

\* C14: every step of the MIDI thread that writes controller state (raw CC
\* values, sustain pedal flag, pitch bend, volume, ...) or a voice slot is
\* taken while the MIDI thread holds voice_mutex, so no such write happens
\* while the audio thread is reading controllers inside a block.
C14_WritesUnderLock ==
    [][ (MidiStep /\ (g_midi_system'.controllers # g_midi_system.controllers
                      \/ g_midi_system'.voices # g_midi_system.voices))
        => (threads.voice_mutex = "midi" /\ ~InBlock) ]_vars

\* C15: every sample mixed in a block was computed with the volume, the
\* expression and the pitch bend that held when the block took voice_mutex
\* and began to mix.
C15_ControllerSnapshot ==
    \A i \in 1..Len(threads.audio_thread.samples) :
       LET sample == threads.audio_thread.samples[i]
           began == threads.audio_thread.began
       IN  /\ sample.volume = began.volume
           /\ sample.expression = began.expression
           /\ sample.pitch_bend = began.pitch_bend

\* The (slot, frame) pairs of the samples mixed so far in the block.
MixedSamples(audio) ==
    {<<audio.samples[i].voice_idx, audio.samples[i].frame>> :
        i \in 1..Len(audio.samples)}

\* C16: a step of the MIDI thread changes voice slots only while the MIDI
\* thread holds voice_mutex and no block is being mixed; while a block is
\* being mixed only the audio thread changes voice slots; the slots a block
\* mixes are the slots active when it took voice_mutex, so a voice whose Note
\* On completed before is among them; and the finished block has mixed each
\* of them once for every frame from frame 0 on and no other slot.
C16_VoicesUnderLock ==
    [][ /\ (MidiStep /\ g_midi_system'.voices # g_midi_system.voices)
           => (threads.voice_mutex = "midi" /\ ~InBlock)
        /\ (InBlock /\ g_midi_system'.voices # g_midi_system.voices)
           => AudioStep
        /\ (AudioStep /\ threads.audio_thread.pc = "lock")
           => threads'.audio_thread.at_lock = Active(g_midi_system)
        /\ (AudioStep /\ threads.audio_thread.pc = "unlock")
           => LET audio == threads.audio_thread
              IN  /\ MixedSamples(audio) =
                        audio.at_lock \X (0..(audio.frame_count - 1))
                  /\ Len(audio.samples) =
                        Cardinality(audio.at_lock) * audio.frame_count ]_vars

\* A Note On waits for voice_mutex while a block that has mixed a sample
\* holds it.
C16_Witness ==
    /\ threads.midi_thread.pc = "lock"
    /\ threads.midi_thread.message = NoteOn(0, 60, 100)
    /\ threads.voice_mutex = "audio"
    /\ threads.audio_thread.pc = "mix"
    /\ threads.audio_thread.samples # <<>>

\* The engine takes MIDI input and renders audio: both callbacks return at
\* once unless active and play_mode are set.
EngineActive(g) == g.active /\ g.play_mode

\* The statements of the shutdown executed so far.
Done == {threads.main_thread.done[i] :
            i \in 1..Len(threads.main_thread.done)}

CodecCalls(names) ==
    /\ Len(codec.calls) = Len(names)
    /\ \A i \in 1..Len(names) :
          codec.calls[i].name = names[i] /\ codec.calls[i].ok

\* The encoder was called last and accepted the patch.
Encoded ==
    /\ LastCodecCall = "dx7_patch_to_sysex"
    /\ codec.calls[Len(codec.calls)].ok

\* C18: after every call of dx7_patch_to_sysex that returns true, the
\* checksum of the dump is (128 - (sum & 0x7F)) & 0x7F for the sum of its 155
\* voice-data bytes, the sum plus the checksum has its low seven bits clear,
\* and the checksum is in 0..127.
C18_Checksum ==
    Encoded =>
      LET sum == ByteSum(codec.sysex.voice_data, 0, 155)
          checksum == codec.sysex.checksum
      IN  /\ checksum = (128 - (sum % 128)) % 128
          /\ (sum + checksum) % 128 = 0
          /\ checksum \in 0..127

\* A patch was encoded and its checksum is not 0.
C18_Witness ==
    /\ Encoded
    /\ codec.given = "patch"
    /\ codec.sysex.checksum # 0

\* The fields of a patch that the voice data carry, the frequency ratios
\* and the name apart.
Carried(patch) ==
    [ operators |-> PerOperator(LAMBDA k :
          [patch.operators[k] EXCEPT !.freq_ratio = 0]),
      globals   |-> <<patch.algorithm, patch.feedback, patch.lfo_speed,
                      patch.lfo_delay, patch.lfo_pmd, patch.lfo_amd,
                      patch.lfo_sync, patch.lfo_wave,
                      patch.lfo_pitch_mod_sens, patch.pitch_env_rates,
                      patch.pitch_env_levels, patch.transpose>> ]

\* The voice parameters of a patch, which have no byte in the voice data.
VoiceParameters(patch) ==
    <<patch.poly_mono, patch.pitch_bend_range, patch.portamento_mode,
      patch.portamento_gliss, patch.portamento_time>>

\* A patch was encoded and the dump decoded again.
RoundTripOfPatch ==
    /\ codec.given = "patch"
    /\ Len(codec.calls) = 2
    /\ codec.calls[1].name = "dx7_patch_to_sysex" /\ codec.calls[1].ok

\* C19 as stated: for every in-range patch P (freq_ratio anywhere in
\* 0.50..31.99) and every channel 0..15, decode(encode(P, ch)) succeeds and
\* equals P in every operator and global field, the name up to trailing
\* spaces and every freq_ratio within 1/99.
C19_RoundTripEveryField ==
    RoundTripOfPatch =>
      /\ codec.calls[2].ok
      /\ Carried(codec.patch) = Carried(codec.source_patch)
      /\ VoiceParameters(codec.patch) = VoiceParameters(codec.source_patch)
      /\ codec.patch.name = TrimSpaces(codec.source_patch.name)
      /\ \A k \in 1..MAX_OPERATORS :
            Abs(codec.patch.operators[k].freq_ratio
                - codec.source_patch.operators[k].freq_ratio) <= 100

\* C19, amended: decode(encode(P, ch)) succeeds and equals P in every
\* operator field but freq_ratio and in algorithm, feedback, the LFO fields,
\* the pitch envelope and transpose, the name up to trailing spaces; a
\* freq_ratio of 1.00 or more comes back at most 1/99 lower, a freq_ratio
\* below 1.00 comes back as 0.50; poly_mono, pitch_bend_range and the
\* portamento fields come back 0.
C19_RoundTripCarried ==
    RoundTripOfPatch =>
      /\ codec.calls[2].ok
      /\ Carried(codec.patch) = Carried(codec.source_patch)
      /\ VoiceParameters(codec.patch) = <<0, 0, 0, 0, 0>>
      /\ codec.patch.name = TrimSpaces(codec.source_patch.name)
      /\ \A k \in 1..MAX_OPERATORS :
            LET ratio == codec.source_patch.operators[k].freq_ratio
                back == codec.patch.operators[k].freq_ratio
            IN  IF ratio >= RatioOne
                  THEN back <= ratio /\ ratio - back < 100
                ELSE back = Hundredths(50)

\* The round trip of a patch named "A B " on channel 15 whose operators[5]
\* has ratio 1.50, quantised to 1 + 49/99.
C19_Witness ==
    /\ RoundTripOfPatch
    /\ codec.channel = 15
    /\ codec.source_patch.name = <<65, 32, 66, 32>>
    /\ codec.patch.name = <<65, 32, 66>>
    /\ codec.source_patch.operators[6].freq_ratio = Hundredths(150)
    /\ codec.patch.operators[6].freq_ratio = RatioOne + 49 * 100

\* C20: when a dump with a correct header and checksum has been decoded and
\* the decoded patch encoded again, the 155 voice-data bytes and the checksum
\* are those of the dump.
C20_RoundTripOfSysex ==
    (codec.given = "sysex"
     /\ CodecCalls(<<"dx7_sysex_to_patch", "dx7_patch_to_sysex">>))
    => /\ codec.sysex.voice_data = codec.source_sysex.voice_data
       /\ codec.sysex.checksum = codec.source_sysex.checksum

\* A frame that is not a voice dump: a byte of the header or the end byte is
\* not what the format prescribes (F0 43 0n 00 01 1B ... F7), or the sum of
\* the voice data and the checksum has a low seven bit set.
WrongFrame(sysex) ==
    \/ sysex.start_sysex # 240
    \/ sysex.end_sysex # 247
    \/ sysex.manufacturer # 67
    \/ sysex.format # 0
    \/ <<sysex.byte_count_msb, sysex.byte_count_lsb>> # <<1, 27>>
    \/ (ByteSum(sysex.voice_data, 0, 155) + sysex.checksum) % 128 # 0

\* This step is a call of dx7_sysex_to_patch.
DecodeStep ==
    /\ Len(codec'.calls) = Len(codec.calls) + 1
    /\ codec'.calls[Len(codec'.calls)].name = "dx7_sysex_to_patch"

\* C21: every call of dx7_sysex_to_patch on a frame with a wrong start byte,
\* end byte, manufacturer, format, byte count or checksum returns false and
\* leaves the patch it was given as it was, in every field.
C21_RejectLeavesPatch ==
    [][(DecodeStep /\ WrongFrame(codec.sysex))
         => /\ ~codec'.calls[Len(codec'.calls)].ok
            /\ codec'.patch = codec.patch
            /\ codec'.has_patch = codec.has_patch]_vars

\* A dump with a wrong format byte was refused and the buffer still holds
\* the patch "TEST" that it held before.
C21_Witness ==
    /\ LastCodecCall = "dx7_sysex_to_patch"
    /\ ~codec.calls[1].ok
    /\ codec.source_sysex.format = 9
    /\ codec.patch.name = <<84, 69, 83, 84>>
    /\ codec.patch = codec.source_patch

\* Every integer field of a patch is in its declared range.
InRange(patch) ==
    /\ \A k \in 1..MAX_OPERATORS :
          LET op == patch.operators[k]
          IN  /\ \A stage \in 0..3 : /\ op.env_rates[stage] \in 0..99
                                     /\ op.env_levels[stage] \in 0..99
              /\ op.output_level \in 0..99
              /\ op.key_level_scale_break_point \in 0..99
              /\ op.key_level_scale_left_depth \in 0..99
              /\ op.key_level_scale_right_depth \in 0..99
              /\ op.key_level_scale_left_curve \in 0..3
              /\ op.key_level_scale_right_curve \in 0..3
              /\ op.key_rate_scaling \in 0..7
              /\ op.key_vel_sens \in 0..7
              /\ op.detune \in (-7)..7
    /\ patch.algorithm \in 1..32
    /\ patch.feedback \in 0..7
    /\ patch.lfo_speed \in 0..99
    /\ patch.lfo_delay \in 0..99
    /\ patch.lfo_pmd \in 0..99
    /\ patch.lfo_amd \in 0..99
    /\ patch.lfo_wave \in 0..5
    /\ patch.lfo_pitch_mod_sens \in 0..7
    /\ patch.transpose \in (-24)..24

\* C22: after every call of dx7_sysex_to_patch that returns true, every
\* integer field of the decoded patch is in its declared range.
C22_DecodedInRange ==
    (LastCodecCall = "dx7_sysex_to_patch" /\ codec.calls[Len(codec.calls)].ok)
      => InRange(codec.patch)

\* The voice_state_t of every slot, and the one main renders.
SynthVoices ==
    {g_midi_system.voices[i].synth_voice : i \in 0..(MAX_VOICES - 1)}
    \cup (IF render.rendering THEN {render.voice} ELSE {})

\* C23: in every state, which is to say after every sample step, note-on,
\* note-off and sustain release, every operator envelope level of every
\* voice is in [0, 1].
C23_LevelInRange ==
    \A voice \in SynthVoices : \A op \in 1..MAX_OPERATORS :
       /\ voice.operators[op].env.level >= 0
       /\ voice.operators[op].env.level <= LevelOne

\* C24: in every state, which is to say after every sample step, every
\* operator phase of every voice is in [0, 1).
C24_PhaseInRange ==
    \A voice \in SynthVoices : \A op \in 1..MAX_OPERATORS :
       /\ voice.operators[op].phase >= 0
       /\ voice.operators[op].phase < PhaseOne

\* The sample steps this step takes: <<patch, voice before, voice after>> for
\* every voice that process_operators has advanced by one sample.
Stepped ==
    { <<g_midi_system.current_patch, g_midi_system.voices[i].synth_voice,
        g_midi_system'.voices[i].synth_voice>> :
        i \in {j \in 0..(MAX_VOICES - 1) :
                 g_midi_system'.voices[j].synth_voice.samples_played
                   = g_midi_system.voices[j].synth_voice.samples_played + 1} }
    \cup (IF render.rendering /\ render'.rendering /\ render'.i = render.i + 1
            THEN {<<render.patch, render.voice, render'.voice>>}
          ELSE {})

\* C25: after every sample step that an operator envelope takes in a stage
\* (Attack, Decay1, Decay2 or Release) whose rate is 99, the envelope level
\* is the target of that stage.
C25_Rate99Instant ==
    [][\A step \in Stepped : \A op \in 1..MAX_OPERATORS :
          LET env == step[2].operators[op].env
          IN  step[1].operators[op].env_rates[env.stage] = 99
                => step[3].operators[op].env.level = env.target]_vars

\* C26: the feedback value process_operators hands to process_algorithm
\* while computing a sample is operator 1's level-scaled output as it was
\* stored at the end of the previous sample (0 for the first sample after
\* note-on) times the patch's feedback, not the output of this sample.
C26_FeedbackDelayed ==
    [][\A step \in Stepped :
          step[3].feedback_value
            = step[2].operators[1].output * step[1].feedback]_vars

\* Whether process_operators finds the engine active in live play mode.
LivePlay == g_midi_system.active /\ g_midi_system.play_mode

\* The multiplier m of C27 in 1270ths: 0.1 + 2.9 * mod_wheel in live play
\* mode, 1 in every other case.
ClaimedMultiplier ==
    IF LivePlay
      THEN 127 + 29 * (g_midi_system.controllers.mod_wheel \div 8192)
    ELSE 1270

\* C27: every sample step advances the LFO phase by (lfo_speed / 99) * 6 * m
\* / SR, wrapped once at 1, where m is 0.1 + 2.9 * mod_wheel in live play
\* mode and 1 in every other case.
C27_LfoIncrement ==
    [][\A step \in Stepped :
          step[3].lfo_phase
            = Advance(step[2].lfo_phase,
                      step[1].lfo_speed * ClaimedMultiplier, LfoOne)]_vars

\* The patches the engine and main's render play.
PatchesInUse ==
    {g_midi_system.current_patch}
    \cup (IF render.rendering THEN {render.patch} ELSE {})

\* C28: the topology of algorithm 1 has exactly one carrier, operator 1, and
\* exactly the modulation edges 6->5, 5->4, 4->3, 3->2 and 2->1; the topology
\* of algorithm 25 has all six operators as carriers and no modulation edge.
C28_Topologies ==
    \A patch \in PatchesInUse :
       LET alg == get_algorithm_routing(patch.algorithm)
       IN  /\ patch.algorithm = 1
                => /\ Carriers(alg) = {1}
                   /\ Edges(alg) = {<<6, 5>>, <<5, 4>>, <<4, 3>>, <<3, 2>>,
                                    <<2, 1>>}
           /\ patch.algorithm = 25
                => /\ Carriers(alg) = 1..6
                   /\ Edges(alg) = {}

\* C29: a packet's one call of allocate_voice changes exactly one slot: the
\* returned slot is active with the note, velocity and channel of the Note
\* On, not sustain_held, its note_on_time the time of the call, every
\* operator phase 0 and every operator envelope in Attack at level 0; the 15
\* other slots are as they were.
C29_AllocateReinitializes ==
    [][ Len(allocated') = 1
          => LET slot == allocated'[1]
                 new == g_midi_system'.voices[slot]
             IN  /\ new.active /\ ~new.sustain_held
                 /\ new.midi_note = dispatched'[1][2]
                 /\ new.velocity = dispatched'[1][3]
                 /\ new.channel = dispatched'[1][1] % 16
                 /\ new.note_on_time = clock'
                 /\ \A op \in 1..MAX_OPERATORS :
                       /\ new.synth_voice.operators[op].phase = 0
                       /\ new.synth_voice.operators[op].env.stage = ENV_ATTACK
                       /\ new.synth_voice.operators[op].env.level = 0
                 /\ \A i \in Slots \ {slot} :
                       g_midi_system'.voices[i] = g_midi_system.voices[i] ]_vars

\* The third key takes slot 0, which the first key had left in Release after
\* it sounded, while the second key still sounds in slot 1.
C29_Witness ==
    /\ allocated = <<0>>
    /\ g_midi_system.notes_played = 3
    /\ g_midi_system.voice_count = 2
    /\ g_midi_system.voices[0].synth_voice.samples_played = 0
    /\ g_midi_system.voices[0].note_on_time = clock
    /\ g_midi_system.voices[1].active
    /\ g_midi_system.voices[1].synth_voice.samples_played > 0

\* The last packet was a release trigger: a Note Off, or a sustain pedal
\* controller message with a value below 64.
ReleaseTriggered ==
    /\ Len(dispatched') = 1
    /\ \/ Handled(MIDI_NOTE_OFF, g_midi_system, dispatched')
       \/ /\ Handled(MIDI_CONTROL_CHANGE, g_midi_system, dispatched')
          /\ dispatched'[1][2] = MIDI_CC_SUSTAIN_PEDAL
          /\ dispatched'[1][3] < 64

\* C30: a sample step leaves an operator envelope in its stage or moves it
\* from Attack to Decay1 or from Decay1 to Decay2, and never moves it out of
\* Release; any other step that changes the stage of an envelope of a slot
\* either is a release trigger that puts it in Release or is the note-on that
\* re-initializes the slot.
C30_StageOrder ==
    [][ /\ \A step \in Stepped : \A op \in 1..MAX_OPERATORS :
              LET stage == step[2].operators[op].env.stage
                  next == step[3].operators[op].env.stage
              IN  \/ next = stage
                  \/ stage = ENV_ATTACK /\ next = ENV_DECAY1
                  \/ stage = ENV_DECAY1 /\ next = ENV_DECAY2
        /\ \A i \in Slots : \A op \in 1..MAX_OPERATORS :
              LET voice == g_midi_system.voices[i].synth_voice
                  after == g_midi_system'.voices[i].synth_voice
                  stage == voice.operators[op].env.stage
                  next == after.operators[op].env.stage
              IN  (next # stage /\ after.samples_played = voice.samples_played)
                    => \/ next = ENV_RELEASE /\ ReleaseTriggered
                       \/ allocated' = <<i>> /\ next = ENV_ATTACK ]_vars

\* A voice that has taken sample steps and that a Note Off has put in Release
\* has just taken a sample step there: it is still in Release, short of its
\* release target.
C30_Witness ==
    /\ last_call.op = "generate_audio_block"
    /\ g_midi_system.voices[0].active
    /\ InRelease(g_midi_system.voices[0])
    /\ g_midi_system.voices[0].synth_voice.samples_played > 3
    /\ g_midi_system.voices[0].synth_voice.operators[1].env.level
         # g_midi_system.voices[0].synth_voice.operators[1].env.target

\* C31: with no release triggered, every operator envelope eventually is in
\* Decay2 with its level at the Decay2 target levels[DECAY2] / 99, and stays
\* there.
C31_ReachesSustain ==
    <>[](/\ render.env.stage = ENV_DECAY2
         /\ render.env.level = Level99(render.op.env_levels[ENV_DECAY2]))

\* C32: whenever voice_mutex is free, voice_count is the number of slots
\* with active = true, and it is in 0..16.
C32_VoiceCount ==
    threads.voice_mutex = "free"
      => /\ g_midi_system.voice_count = Cardinality(Active(g_midi_system))
         /\ g_midi_system.voice_count \in 0..MAX_VOICES

\* A block has just marked the first key's voice inactive while the second
\* key's voice sounds on.
C32_Witness ==
    /\ last_call.op = "generate_audio_block"
    /\ 0 \in mixed
    /\ ~g_midi_system.voices[0].active
    /\ g_midi_system.voices[1].active
    /\ g_midi_system.voice_count = 1
    /\ g_midi_system.notes_played = 2

\* C33: after every dispatched message, if the sustain pedal is off then no
\* active voice is sustain_held.
C33_NoHeldVoiceWithoutPedal ==
    (dispatched # <<>> /\ ~g_midi_system.controllers.sustain_pedal)
      => \A i \in Active(g_midi_system) : ~g_midi_system.voices[i].sustain_held

\* The messages dispatched are k Note Ons of one note followed by k Note Offs
\* of that note, on the current channel, and every Note On allocated a voice.
SameNoteDispatched(k) ==
    /\ Len(dispatched) = 2 * k
    /\ Len(allocated) = k
    /\ \A j \in 1..k :
          /\ dispatched[j][1] = MIDI_NOTE_ON + g_midi_system.current_channel
          /\ dispatched[j][2] = dispatched[1][2]
          /\ dispatched[j][3] > 0
    /\ \A j \in (k + 1)..(2 * k) :
          /\ dispatched[j][1] = MIDI_NOTE_OFF + g_midi_system.current_channel
          /\ dispatched[j][2] = dispatched[1][2]

\* C34: with the sustain pedal off, after k Note Ons of one note on the
\* current channel followed by k Note Offs of that note, 2 <= k <= 16, every
\* voice allocated for the note has all six envelopes in Release.
C34_SameNoteAllReleased ==
    \A k \in 2..MAX_VOICES :
       (SameNoteDispatched(k) /\ ~g_midi_system.controllers.sustain_pedal)
         => \A j \in 1..k : InRelease(g_midi_system.voices[allocated[j]])

\* C35: once Release has been triggered on the operators of an active voice,
\* the blocks eventually mark the voice inactive.
C35_ReleasedVoiceEnds ==
    (render.released /\ render.active) ~> ~render.active

\* The voice has not been released and has an operator in Attack whose
\* target is not 0.
StillAttacking(voice) ==
    /\ \A op \in 1..MAX_OPERATORS : Stages(voice)[op] # ENV_RELEASE
    /\ \E op \in 1..MAX_OPERATORS :
          /\ Stages(voice)[op] = ENV_ATTACK
          /\ voice.synth_voice.operators[op].env.target > 0

\* C36: an audio block does not mark inactive a voice that, after the
\* block's frames, has not been released and still has an operator in Attack
\* heading for a nonzero target; so a newly allocated voice survives its
\* first block.
C36_AttackSurvivesBlock ==
    [][ last_call'.op = "generate_audio_block"
          => \A i \in Active(g_midi_system) :
                StillAttacking(g_midi_system'.voices[i])
                  => g_midi_system'.voices[i].active ]_vars

\* A thread is at a pthread_mutex_lock of voice_mutex.
AtLock(thread) ==
    CASE thread = "midi"  -> threads.midi_thread.pc = "lock"
      [] thread = "audio" -> threads.audio_thread.pc = "lock"
      [] thread = "main"  ->
           /\ threads.main_thread.program # <<>>
           /\ Head(threads.main_thread.program) = "pthread_mutex_lock"

\* C37: a thread that holds voice_mutex releases it, and no thread comes to
\* a pthread_mutex_lock while it holds the mutex or after the mutex has been
\* destroyed: a thread waiting for the mutex waits for one that another
\* thread is about to free, so the MIDI thread, the audio thread and main do
\* not deadlock on the voice lock.
C37_LockReleased ==
    /\ [](\A thread \in {"midi", "audio", "main"} :
             AtLock(thread) => threads.voice_mutex \notin {thread, "destroyed"})
    /\ (threads.voice_mutex \in {"midi", "audio", "main"})
          ~> (threads.voice_mutex = "free")

\* Stop-play has returned, a Note On handler and an audio block have run:
\* each of the three threads has taken the mutex, and it is free.
C37_Witness ==
    /\ threads.voice_mutex = "free"
    /\ threads.main_thread.done = StopPlayProgram
    /\ g_midi_system.notes_played >= 1
    /\ threads.audio_thread.samples # <<>>
    /\ threads.audio_thread.pc = "idle"
    /\ threads.midi_thread.pc = "idle"

\* midi_input_stop_play_mode has run to its end and play mode has not been
\* started since.
StopReturned ==
    /\ Len(threads.main_thread.done) >= Len(StopPlayProgram)
    /\ SubSeq(threads.main_thread.done, 1, Len(StopPlayProgram))
         = StopPlayProgram
    /\ ~g_midi_system.play_mode

\* C38: once midi_input_stop_play_mode has returned, every voice slot is
\* inactive and voice_count is 0, also when a MIDI callback that had passed
\* its test of play_mode was running beside the stop.
C38_StoppedStaysSilent ==
    StopReturned
      => /\ Active(g_midi_system) = {}
         /\ g_midi_system.voice_count = 0

\* C39: in whatever state the parser is, a packet of one channel status
\* byte for the current channel and its data bytes is dispatched exactly
\* once, as that message with those data bytes; also after a SysEx that was
\* started and never ended by 0xF7.
C39_StatusThenData ==
    [][ \A data \in ChannelMessages :
          Parsed(data) => dispatched' = << Message(data) >> ]_vars

\* The bounds of the parser's fields: the SysEx accumulator holds at most
\* sizeof(sysex_buffer) bytes, and under a running status the message needs
\* one or two data bytes and has received fewer than it needs, so that the
\* next data byte is written to data_buffer[0] or data_buffer[1].
ParserBounded(parser) ==
    /\ parser.sysex_length <= SYSEX_BUFFER_SIZE
    /\ Len(parser.sysex_buffer) <= SYSEX_BUFFER_SIZE
    /\ parser.running_status # 0
         => /\ parser.data_bytes_needed \in {1, 2}
            /\ parser.data_bytes_received < parser.data_bytes_needed

\* C40: after every call of midi_parse_byte, that is after every byte of
\* every packet, sysex_length is at most 512 and, whenever running_status
\* is not 0, data_bytes_needed is 1 or 2 and data_bytes_received is below
\* it.
C40_ParserBounded ==
    [][ \A i \in 1..Len(last_call'.data) :
          Parsed(last_call'.data)
            => ParserBounded(
                 ParseBytes(Call(g_midi_system, clock),
                            SubSeq(last_call'.data, 1, i), 1).g.parser) ]_vars

\* After a Note On, a dump has filled the accumulator and one more byte of
\* it has arrived.
C40_Witness ==
    /\ last_call.data = <<0>>
    /\ g_midi_system.parser.in_sysex
    /\ g_midi_system.parser.sysex_length = SYSEX_BUFFER_SIZE
    /\ g_midi_system.parser.running_status = MIDI_NOTE_ON
    /\ g_midi_system.parser.data_bytes_needed = 2
    /\ g_midi_system.parser.data_bytes_received = 0


====
